---- MODULE Spec2Model ----
(***************************************************************************)
(* A model of the gsc command-line client (tov/gsc-client): the cp         *)
(* command's copy-resolution engine, the overwrite policy and the          *)
(* argument parsers they consume.                                          *)
(*                                                                         *)
(* Text (tokens, paths, file names, patterns) is a sequence of one-        *)
(* character strings, so that the parsers, the glob matcher and the path   *)
(* operations are computed and not assumed.                                *)
(***************************************************************************)
EXTENDS Integers, Sequences, FiniteSets, TLC

(***************************************************************************)
(* Bounds of the model.                                                    *)
(***************************************************************************)
\* the most SRC arguments of one cp invocation
MaxSrcs == 2
\* the most unrecognised answers the user gives to the overwrite prompts
MaxReprompts == 1

(***************************************************************************)
(* Text helpers.                                                           *)
(***************************************************************************)
Digits == {"0", "1", "2", "3", "4", "5", "6", "7", "8", "9"}

DigitVal(c) ==
    CASE c = "0" -> 0 [] c = "1" -> 1 [] c = "2" -> 2 [] c = "3" -> 3
      [] c = "4" -> 4 [] c = "5" -> 5 [] c = "6" -> 6 [] c = "7" -> 7
      [] c = "8" -> 8 [] c = "9" -> 9

DigitChar(d) ==
    CASE d = 0 -> "0" [] d = 1 -> "1" [] d = 2 -> "2" [] d = 3 -> "3"
      [] d = 4 -> "4" [] d = 5 -> "5" [] d = 6 -> "6" [] d = 7 -> "7"
      [] d = 8 -> "8" [] d = 9 -> "9"

Tail2(s, n) == SubSeq(s, n, Len(s))

HasChar(s, c) == \E i \in 1..Len(s) : s[i] = c

\* a decimal digit outside ASCII (ARABIC-INDIC DIGIT THREE), one character
ArabicThree == "U+0663"

\* the class \d of the regex crate: the decimal digits of Unicode
DecimalDigits == Digits \cup {ArabicThree}

\* the length of the longest run of \d of s that starts at position i
RECURSIVE DigitRun(_, _)
DigitRun(s, i) ==
    IF i <= Len(s) /\ s[i] \in DecimalDigits THEN 1 + DigitRun(s, i + 1) ELSE 0

\* the decimal digits of usize::MAX, 2^64 - 1
UsizeMaxText ==
    <<"1", "8", "4", "4", "6", "7", "4", "4", "0", "7",
      "3", "7", "0", "9", "5", "5", "1", "6", "1", "5">>

\* a run of digits without its leading zeros
RECURSIVE SignificantDigits(_)
SignificantDigits(ds) ==
    IF ds # <<>> /\ ds[1] = "0" THEN SignificantDigits(Tail(ds)) ELSE ds

\* a <= b for two runs of ASCII digits of the same length
RECURSIVE DigitsLeq(_, _)
DigitsLeq(a, b) ==
    IF a = <<>> THEN TRUE
    ELSE IF a[1] # b[1] THEN DigitVal(a[1]) < DigitVal(b[1])
    ELSE DigitsLeq(Tail(a), Tail(b))

\* str::parse::<usize>() is Ok: ASCII digits only, and a value that fits
FitsUsize(ds) ==
    /\ ds # <<>>
    /\ \A i \in 1..Len(ds) : ds[i] \in Digits
    /\ LET sig == SignificantDigits(ds) IN
       \/ Len(sig) < Len(UsizeMaxText)
       \/ Len(sig) = Len(UsizeMaxText) /\ DigitsLeq(sig, UsizeMaxText)

\* the value of str::parse::<usize>() when it is Ok; the inputs that are Ok
\* have at most nine significant digits
RECURSIVE ParseUsize(_)
ParseUsize(ds) ==
    IF ds = <<>> THEN 0
    ELSE 10 * ParseUsize(SubSeq(ds, 1, Len(ds) - 1)) + DigitVal(ds[Len(ds)])

\* the decimal text of a number, as "{}" formats a usize
RECURSIVE FormatUsize(_)
FormatUsize(n) ==
    IF n < 10 THEN <<DigitChar(n)>>
    ELSE FormatUsize(n \div 10) \o <<DigitChar(n % 10)>>

(***************************************************************************)
(* CpArg, RemotePattern and errors.                                        *)
(***************************************************************************)
NoText == <<>>

Local(path) == [tag |-> "Local", path |-> path, hw |-> 0, name |-> NoText]

Remote(hw, name) == [tag |-> "Remote", path |-> NoText, hw |-> hw, name |-> name]

\* a pattern that never counts as a whole homework
RpatIsWholeHw_never(rpat) == FALSE

\* HwQual::is_whole_hw
RpatIsWholeHw(rpat) == rpat.name = <<>>

\* CpArg::is_whole_hw
is_whole_hw(arg) ==
    CASE arg.tag = "Local" -> FALSE
      [] arg.tag = "Remote" -> RpatIsWholeHw(arg)

\* a display that leaves the colon out of a whole homework
DisplayHwQual_opt(rpat) ==
    IF rpat.name = <<>> THEN <<"h", "w">> \o FormatUsize(rpat.hw)
    ELSE <<"h", "w">> \o FormatUsize(rpat.hw) \o <<":">> \o rpat.name

\* Display for HwQual: "hw{}:{}"
DisplayHwQual(rpat) == <<"h", "w">> \o FormatUsize(rpat.hw) \o <<":">> \o rpat.name

NoError == [kind |-> "none", text |-> NoText, hw |-> 0, files |-> <<>>, class |-> ""]

Err(kind) == [NoError EXCEPT !.kind = kind]

ErrText(kind, text) == [NoError EXCEPT !.kind = kind, !.text = text]

\* ErrorKind::syntax
syntax(class, thing) == [ErrText("SyntaxError", thing) EXCEPT !.class = class]

\* the panic of Result::unwrap on the Err of str::parse
Panic(thing) == ErrText("Panic", thing)

\* no homework number, the None of HwOptQual
NoHw == -1

\* a RemoteDestination
RemoteDest(hw, name) == [tag |-> "RemoteDest", path |-> NoText, hw |-> hw, name |-> name]

\* RemotePath::just_hw of a RemoteDestination
just_hw(hw) == RemoteDest(hw, NoText)

\* Unqualified::just_name
just_name(name) == RemoteDest(NoHw, name)

(***************************************************************************)
(* The regular expressions of the parsers.                                 *)
(***************************************************************************)
\* re::HW_FILE, ^hw(\d+):(.*)$ : the digits and the rest, or no match
HW_FILE(s) ==
    LET k == DigitRun(s, 3) IN
    IF /\ Len(s) >= 4
       /\ s[1] = "h" /\ s[2] = "w"
       /\ k >= 1
       /\ Len(s) >= 3 + k
       /\ s[3 + k] = ":"
       /\ ~HasChar(Tail2(s, 4 + k), "\n")
    THEN [matched |-> TRUE, num |-> SubSeq(s, 3, 2 + k), rest |-> Tail2(s, 4 + k)]
    ELSE [matched |-> FALSE, num |-> NoText, rest |-> NoText]

\* re::LOCAL_FILE, ^:(.+)$
LOCAL_FILE(s) ==
    IF Len(s) >= 2 /\ s[1] = ":" /\ ~HasChar(Tail2(s, 2), "\n")
    THEN [matched |-> TRUE, rest |-> Tail2(s, 2)]
    ELSE [matched |-> FALSE, rest |-> NoText]

\* HW_NUM of cannot_copy_local_to_local, ^hw\d+$
HW_NUM(s) ==
    /\ Len(s) >= 3
    /\ s[1] = "h" /\ s[2] = "w"
    /\ DigitRun(s, 3) = Len(s) - 2

\* re::HW_ONLY, ^hw(\d+):?$ : the digits, or no match
HW_ONLY(s) ==
    LET k == DigitRun(s, 3) IN
    IF /\ Len(s) >= 3
       /\ s[1] = "h" /\ s[2] = "w"
       /\ k >= 1
       /\ \/ Len(s) = 2 + k
          \/ Len(s) = 3 + k /\ s[3 + k] = ":"
    THEN [matched |-> TRUE, num |-> SubSeq(s, 3, 2 + k)]
    ELSE [matched |-> FALSE, num |-> NoText]

\* parse_hw: a homework number or a SyntaxError
parse_hw(spec) ==
    LET captures == HW_ONLY(spec) IN
    IF captures.matched /\ FitsUsize(captures.num)
    THEN [ok |-> TRUE, hw |-> ParseUsize(captures.num), err |-> NoError]
    ELSE [ok |-> FALSE, hw |-> 0, err |-> syntax("homework spec", spec)]

\* parse_hw_file: a RemotePattern, a SyntaxError, or the panic of unwrap
parse_hw_file(file_spec) ==
    LET captures == HW_FILE(file_spec) IN
    IF ~captures.matched
    THEN [ok |-> FALSE, arg |-> Local(NoText),
          err |-> syntax("remote file or homework spec", file_spec)]
    ELSE IF ~FitsUsize(captures.num)
    THEN [ok |-> FALSE, arg |-> Local(NoText), err |-> Panic(captures.num)]
    ELSE [ok |-> TRUE, arg |-> Remote(ParseUsize(captures.num), captures.rest),
          err |-> NoError]

\* re::HW_OPT_FILE, ^hw(\d+)(?::(.*))?$ : the digits and the rest when there
\* is a colon, or no match
HW_OPT_FILE(s) ==
    LET k == DigitRun(s, 3) IN
    IF /\ Len(s) >= 3
       /\ s[1] = "h" /\ s[2] = "w"
       /\ k >= 1
       /\ \/ Len(s) = 2 + k
          \/ s[3 + k] = ":" /\ ~HasChar(Tail2(s, 4 + k), "\n")
    THEN [matched |-> TRUE, num |-> SubSeq(s, 3, 2 + k),
          some |-> Len(s) > 2 + k, rest |-> Tail2(s, 4 + k)]
    ELSE [matched |-> FALSE, num |-> NoText, some |-> FALSE, rest |-> NoText]

\* parse_hw_opt_file: a RemotePattern, a SyntaxError, or the panic of unwrap
parse_hw_opt_file(spec) ==
    LET captures == HW_OPT_FILE(spec) IN
    IF ~captures.matched
    THEN [ok |-> FALSE, arg |-> Local(NoText),
          err |-> syntax("homework or file spec", spec)]
    ELSE IF ~FitsUsize(captures.num)
    THEN [ok |-> FALSE, arg |-> Local(NoText), err |-> Panic(captures.num)]
    ELSE [ok |-> TRUE,
          arg |-> Remote(ParseUsize(captures.num),
                         IF captures.some THEN captures.rest ELSE NoText),
          err |-> NoError]

\* parse_remote_dest: a RemoteDestination, a SyntaxError, or the panic of
\* parse_hw_file
parse_remote_dest(spec) ==
    IF spec = <<>>
    THEN [ok |-> FALSE, arg |-> Local(NoText),
          err |-> syntax("remote file or assignment name", spec)]
    ELSE IF parse_hw(spec).ok
    THEN [ok |-> TRUE, arg |-> just_hw(parse_hw(spec).hw), err |-> NoError]
    ELSE IF HasChar(spec, ":")
    THEN LET r == parse_hw_file(spec) IN
         IF r.ok THEN [r EXCEPT !.arg = RemoteDest(r.arg.hw, r.arg.name)] ELSE r
    ELSE [ok |-> TRUE, arg |-> just_name(spec), err |-> NoError]

\* parse_cp_arg: a CpArg, a SyntaxError, or the panic of parse_hw_file
parse_cp_arg(spec) ==
    IF spec = <<>>
    THEN [ok |-> FALSE, arg |-> Local(NoText), err |-> syntax("file name", spec)]
    ELSE IF LOCAL_FILE(spec).matched
    THEN [ok |-> TRUE, arg |-> Local(LOCAL_FILE(spec).rest), err |-> NoError]
    ELSE IF HasChar(spec, ":")
    THEN parse_hw_file(spec)
    ELSE [ok |-> TRUE, arg |-> Local(spec), err |-> NoError]

\* ErrorKind::cannot_copy_local_to_local
cannot_copy_local_to_local(src, dst) ==
    IF HW_NUM(dst)
    THEN ErrText("CannotCopyLocalToLocalExtra", dst)
    ELSE ErrText("CannotCopyLocalToLocal", dst)

(***************************************************************************)
(* Local paths and the local file system.  A path is its text; the file    *)
(* system maps a list of components to a directory or a file with its      *)
(* contents.  The working directory is the empty list of components.       *)
(***************************************************************************)
\* the text before the first separator at or after position i
RECURSIVE SplitAt(_, _, _)
SplitAt(s, i, acc) ==
    IF i > Len(s) THEN <<acc>>
    ELSE IF s[i] = "/" THEN <<acc>> \o SplitAt(s, i + 1, <<>>)
    ELSE SplitAt(s, i + 1, Append(acc, s[i]))

\* Path::components for a relative path: empty and "." components vanish
Components(p) ==
    SelectSeq(SplitAt(p, 1, <<>>), LAMBDA c : c # <<>> /\ c # <<".">>)

EndsInSeparator(p) == Len(p) >= 1 /\ p[Len(p)] = "/"

\* PathBuf::push of a relative name
PathPush(p, name) ==
    IF p = <<>> \/ EndsInSeparator(p) THEN p \o name ELSE p \o <<"/">> \o name

\* Path::file_name: the last component unless there is none or it is ".."
PathFileName(p) ==
    LET cs == Components(p) IN
    IF cs = <<>> \/ cs[Len(cs)] = <<".", ".">>
    THEN [some |-> FALSE, name |-> NoText]
    ELSE [some |-> TRUE, name |-> cs[Len(cs)]]

NoData == [origin |-> "empty", hw |-> 0, name |-> NoText]

OldData == [origin |-> "old", hw |-> 0, name |-> NoText]

LocalData(path) == [origin |-> "local", hw |-> 0, name |-> path]

RemoteData(hw, name) == [origin |-> "remote", hw |-> hw, name |-> name]

DirEntry == [kind |-> "dir", data |-> NoData]

FileEntry(data) == [kind |-> "file", data |-> data]

FsHas(f, cs) == cs = <<>> \/ cs \in DOMAIN f

FsIsDir(f, cs) == cs = <<>> \/ (cs \in DOMAIN f /\ f[cs].kind = "dir")

FsIsFile(f, cs) == cs \in DOMAIN f /\ f[cs].kind = "file"

FsParent(cs) == SubSeq(cs, 1, Len(cs) - 1)

FsPut(f, cs, entry) == [k \in DOMAIN f \cup {cs} |-> IF k = cs THEN entry ELSE f[k]]

\* Path::metadata: "dir", "file", "notfound", or "ioerror" (a component of the
\* path, or a path written with a trailing separator, is a plain file)
Metadata(f, p) ==
    LET cs == Components(p) IN
    IF \E n \in 1..(Len(cs) - 1) : FsIsFile(f, SubSeq(cs, 1, n)) THEN "ioerror"
    ELSE IF ~FsHas(f, cs) THEN "notfound"
    ELSE IF FsIsDir(f, cs) THEN "dir"
    ELSE IF EndsInSeparator(p) THEN "ioerror"
    ELSE "file"

\* Path::exists
PathExists(f, p) == Metadata(f, p) \in {"dir", "file"}

\* whether fs::create_dir can succeed or report AlreadyExists
CanSoftCreateDir(f, p) ==
    LET cs == Components(p) IN
    FsHas(f, cs) \/ FsIsDir(f, FsParent(cs))

\* soft_create_dir: an existing path is left alone
SoftCreateDir(f, p) ==
    LET cs == Components(p) IN
    IF FsHas(f, cs) THEN f ELSE FsPut(f, cs, DirEntry)

\* whether OpenOptions write+create+truncate can open the path
CanOpenForWrite(f, p) ==
    LET cs == Components(p) IN
    /\ cs # <<>>
    /\ ~FsIsDir(f, cs)
    /\ FsIsDir(f, FsParent(cs))
    /\ ~EndsInSeparator(p)

\* whether fs::File::open can open the path for reading
CanOpenForRead(f, p) == PathExists(f, p)

(***************************************************************************)
(* The pattern matcher.                                                    *)
(***************************************************************************)
\* the position of the first "]" of p at or after i, 0 when there is none
RECURSIVE FindClose(_, _)
FindClose(p, i) ==
    IF i > Len(p) THEN 0
    ELSE IF p[i] = "]" THEN i
    ELSE FindClose(p, i + 1)

\* Glob::new accepts the pattern: every character class is closed
RECURSIVE GlobValid(_, _)
GlobValid(p, i) ==
    IF i > Len(p) THEN TRUE
    ELSE IF p[i] = "["
    THEN FindClose(p, i + 2) # 0 /\ GlobValid(p, FindClose(p, i + 2) + 1)
    ELSE GlobValid(p, i + 1)

\* GlobMatcher::is_match from position i of the pattern and j of the name:
\* "*" any text, "?" any character, "[...]" and "[!...]" character classes
RECURSIVE GlobMatchFrom(_, _, _, _)
GlobMatchFrom(p, i, s, j) ==
    IF i > Len(p) THEN j > Len(s)
    ELSE IF p[i] = "*"
    THEN GlobMatchFrom(p, i + 1, s, j) \/ (j <= Len(s) /\ GlobMatchFrom(p, i, s, j + 1))
    ELSE IF p[i] = "?"
    THEN j <= Len(s) /\ GlobMatchFrom(p, i + 1, s, j + 1)
    ELSE IF p[i] = "["
    THEN LET close == FindClose(p, i + 2)
             negated == p[i + 1] = "!"
             first == IF negated THEN i + 2 ELSE i + 1
             member == j <= Len(s) /\ \E k \in first..(close - 1) : p[k] = s[j]
         IN  /\ j <= Len(s)
             /\ (member # negated)
             /\ GlobMatchFrom(p, close + 1, s, j + 1)
    ELSE j <= Len(s) /\ p[i] = s[j] /\ GlobMatchFrom(p, i + 1, s, j + 1)

\* the pattern taken as it is written
RealPattern_literal(pattern) == pattern

\* glob(): the empty pattern is "*"
RealPattern(pattern) == IF pattern = <<>> THEN <<"*">> ELSE pattern

GlobOk(pattern) == GlobValid(RealPattern(pattern), 1)

GlobIsMatch(pattern, name) == GlobMatchFrom(RealPattern(pattern), 1, name, 1)

(***************************************************************************)
(* FilePurpose.                                                            *)
(***************************************************************************)
FilePurposes == {"Source", "Test", "Config", "Resource", "Log", "Forbidden"}

\* a mapping that puts every purpose directly under the destination
to_dir_flat(purpose) == <<".">>

\* FilePurpose::to_dir
to_dir(purpose) ==
    CASE purpose = "Source" -> <<"s", "r", "c">>
      [] purpose = "Test" -> <<"t", "e", "s", "t">>
      [] purpose = "Config" -> <<".">>
      [] purpose = "Resource" -> <<"R", "e", "s", "o", "u", "r", "c", "e", "s">>
      [] purpose = "Log" -> <<".">>
      [] purpose = "Forbidden" -> <<".">>

FileMeta(hw, name, purpose, data) ==
    [hw |-> hw, name |-> name, purpose |-> purpose, data |-> data]

(***************************************************************************)
(* The server and the submission-URI cache.                                *)
(***************************************************************************)
NoUri == [some |-> FALSE, user |-> "", hw |-> 0]

SomeUri(user, hw) == [some |-> TRUE, user |-> user, hw |-> hw]

RECURSIVE PadTo(_, _)
PadTo(result, number) ==
    IF number >= Len(result) THEN PadTo(Append(result, NoUri), number) ELSE result

\* get_submission_uris: the list indexed by assignment number (position
\* number + 1 of the sequence), built from the submissions the server lists
RECURSIVE get_submission_uris(_, _, _)
get_submission_uris(user, subs, result) ==
    IF subs = <<>> THEN result
    ELSE LET number == Head(subs)
             padded == PadTo(result, number)
         IN  get_submission_uris(user, Tail(subs),
                 [padded EXCEPT ![number + 1] = SomeUri(user, number)])

Ev(op, hw, text) == [op |-> op, hw |-> hw, text |-> text]

\* get_uri_for_submission: the cache entry of the user, fetched on a miss
\* a cache that answers from whatever entry it holds
get_uri_for_submission_shared(cache, subs, user, number, netSub) ==
    LET hit == DOMAIN cache # {}
        uris == IF hit THEN cache[CHOOSE u \in DOMAIN cache : TRUE]
                ELSE get_submission_uris(user, subs[user], <<>>)
        log == IF hit THEN <<>> ELSE <<Ev("GET submissions", 0, NoText)>>
    IN  IF ~hit /\ ~netSub
        THEN [err |-> Err("ServerError"), cache |-> cache, log |-> log]
        ELSE [err |-> IF number + 1 <= Len(uris) /\ uris[number + 1].some
                      THEN NoError
                      ELSE [Err("UnknownHomework") EXCEPT !.hw = number],
              cache |-> [u \in DOMAIN cache \cup {user} |->
                            IF u \in DOMAIN cache THEN cache[u] ELSE uris],
              log |-> log]

get_uri_for_submission(cache, subs, user, number, netSub) ==
    LET hit == user \in DOMAIN cache
        uris == IF hit THEN cache[user] ELSE get_submission_uris(user, subs[user], <<>>)
        log == IF hit THEN <<>> ELSE <<Ev("GET submissions", 0, NoText)>>
    IN  IF ~hit /\ ~netSub
        THEN [err |-> Err("ServerError"), cache |-> cache, log |-> log]
        ELSE [err |-> IF number + 1 <= Len(uris) /\ uris[number + 1].some
                      THEN NoError
                      ELSE [Err("UnknownHomework") EXCEPT !.hw = number],
              cache |-> [u \in DOMAIN cache \cup {user} |->
                            IF u = user THEN uris ELSE cache[u]],
              log |-> log]

\* get_uri_for_submission_files: the effective user's submission
get_uri_for_submission_files(cache, subs, creds, number, netSub) ==
    IF ~creds.some
    THEN [err |-> Err("LoginPlease"), cache |-> cache, log |-> <<>>]
    ELSE get_uri_for_submission(cache, subs, creds.username, number, netSub)

\* the matching files of a listing, in the server's order
FilterMatching(files, pattern) ==
    SelectSeq(files, LAMBDA file : GlobIsMatch(pattern, file.name))

\* fetch_matching_file_list: glob, then fetch_raw_file_list, then the filter
fetch_matching_file_list(cache, subs, creds, rem, rpat, netSub, netList) ==
    IF ~GlobOk(rpat.name)
    THEN [err |-> Err("PatternError"), files |-> <<>>, cache |-> cache, log |-> <<>>]
    ELSE LET uri == get_uri_for_submission_files(cache, subs, creds, rpat.hw, netSub)
             get == Ev("GET files", rpat.hw, NoText)
         IN  IF uri.err.kind # "none"
             THEN [err |-> uri.err, files |-> <<>>, cache |-> uri.cache, log |-> uri.log]
             ELSE IF ~netList
             THEN [err |-> Err("ServerError"), files |-> <<>>,
                   cache |-> uri.cache, log |-> Append(uri.log, get)]
             ELSE [err |-> NoError, files |-> FilterMatching(rem[rpat.hw], rpat.name),
                   cache |-> uri.cache, log |-> Append(uri.log, get)]

\* fetch_nonempty_matching_file_list
fetch_nonempty_matching_file_list(cache, subs, creds, rem, rpat, netSub, netList) ==
    LET result == fetch_matching_file_list(cache, subs, creds, rem, rpat, netSub, netList) IN
    IF result.err.kind = "none" /\ result.files = <<>>
    THEN [result EXCEPT !.err = [Err("NoSuchRemoteFile") EXCEPT
                                    !.hw = rpat.hw, !.text = rpat.name]]
    ELSE result

\* a resolution that takes the first of several matching files
fetch_one_matching_filename_first(cache, subs, creds, rem, rpat, netSub, netList) ==
    LET result == fetch_matching_file_list(cache, subs, creds, rem, rpat, netSub, netList) IN
    IF result.err.kind # "none" THEN result
    ELSE IF Len(result.files) = 0
    THEN [result EXCEPT !.err = [Err("NoSuchRemoteFile") EXCEPT
                                    !.hw = rpat.hw, !.text = rpat.name]]
    ELSE [result EXCEPT !.files = <<result.files[1]>>]

\* fetch_one_matching_filename
fetch_one_matching_filename(cache, subs, creds, rem, rpat, netSub, netList) ==
    LET result == fetch_matching_file_list(cache, subs, creds, rem, rpat, netSub, netList) IN
    IF result.err.kind # "none" THEN result
    ELSE IF Len(result.files) = 0
    THEN [result EXCEPT !.err = [Err("NoSuchRemoteFile") EXCEPT
                                    !.hw = rpat.hw, !.text = rpat.name]]
    ELSE IF Len(result.files) = 1 THEN result
    ELSE [result EXCEPT !.err = Err("MultipleSourcesOneDestination"), !.files = <<>>]

\* the server's file list after a successful PUT of src under the name
ServerPut(files, hw, name, src) ==
    IF \E i \in 1..Len(files) : files[i].name = name
    THEN [i \in 1..Len(files) |->
            IF files[i].name = name
            THEN [files[i] EXCEPT !.data = LocalData(src)]
            ELSE files[i]]
    ELSE Append(files, FileMeta(hw, name, "Source", LocalData(src)))

\* upload_file: open the source, find the submission, PUT
upload_file(f, cache, subs, creds, rem, src, hw, name, netSub, netPut) ==
    IF ~CanOpenForRead(f, src)
    THEN [err |-> ErrText("Io", src), cache |-> cache, log |-> <<>>, remote |-> rem]
    ELSE LET uri == get_uri_for_submission_files(cache, subs, creds, hw, netSub)
             read == Ev("open source", 0, src)
             put == Ev("PUT", hw, name)
         IN  IF uri.err.kind # "none"
             THEN [err |-> uri.err, cache |-> uri.cache,
                   log |-> <<read>> \o uri.log, remote |-> rem]
             ELSE IF ~netPut
             THEN [err |-> Err("ServerError"), cache |-> uri.cache,
                   log |-> <<read>> \o uri.log \o <<put>>, remote |-> rem]
             ELSE [err |-> NoError, cache |-> uri.cache,
                   log |-> <<read>> \o uri.log \o <<put>>,
                   remote |-> [rem EXCEPT ![hw] = ServerPut(rem[hw], hw, name, src)]]

\* get_base_filename
get_base_filename(path) ==
    IF PathFileName(path).some
    THEN [err |-> NoError, name |-> PathFileName(path).name]
    ELSE [err |-> ErrText("BadLocalPath", path), name |-> NoText]

(***************************************************************************)
(* The overwrite policy.                                                   *)
(***************************************************************************)
OverwritePolicies == {"Always", "Never", "Ask"}

\* the first character of a line typed at the prompt, lower-cased; "eof" is
\* the end of a closed stream and "?" stands for every other line
Answers == {"y", "n", "a", "c", "eof", "?"}

\* a prompt where "cancel" skips the file and goes on
confirm_overwrite_cancel_skips(pol, answer) ==
    CASE pol = "Always" -> [policy |-> pol, result |-> "true"]
      [] pol = "Never" -> [policy |-> pol, result |-> "error"]
      [] pol = "Ask" ->
            CASE answer = "eof" -> [policy |-> pol, result |-> "exit1"]
              [] answer = "y" -> [policy |-> pol, result |-> "true"]
              [] answer \in {"n", "c"} -> [policy |-> pol, result |-> "false"]
              [] answer = "a" -> [policy |-> "Always", result |-> "true"]
              [] OTHER -> [policy |-> pol, result |-> "again"]

\* a prompt where "no" is taken for "yes"
confirm_overwrite_no_is_yes(pol, answer) ==
    CASE pol = "Always" -> [policy |-> pol, result |-> "true"]
      [] pol = "Never" -> [policy |-> pol, result |-> "error"]
      [] pol = "Ask" ->
            CASE answer = "eof" -> [policy |-> pol, result |-> "exit1"]
              [] answer \in {"y", "n"} -> [policy |-> pol, result |-> "true"]
              [] answer = "a" -> [policy |-> "Always", result |-> "true"]
              [] answer = "c" -> [policy |-> pol, result |-> "exit0"]
              [] OTHER -> [policy |-> pol, result |-> "again"]

\* a prompt where "all" approves this file only
confirm_overwrite_forgetful(pol, answer) ==
    CASE pol = "Always" -> [policy |-> pol, result |-> "true"]
      [] pol = "Never" -> [policy |-> pol, result |-> "error"]
      [] pol = "Ask" ->
            CASE answer = "eof" -> [policy |-> pol, result |-> "exit1"]
              [] answer \in {"y", "a"} -> [policy |-> pol, result |-> "true"]
              [] answer = "n" -> [policy |-> pol, result |-> "false"]
              [] answer = "c" -> [policy |-> pol, result |-> "exit0"]
              [] OTHER -> [policy |-> pol, result |-> "again"]

\* a prompt where "yes" is remembered like "all"
confirm_overwrite_sticky(pol, answer) ==
    CASE pol = "Always" -> [policy |-> pol, result |-> "true"]
      [] pol = "Never" -> [policy |-> pol, result |-> "error"]
      [] pol = "Ask" ->
            CASE answer = "eof" -> [policy |-> pol, result |-> "exit1"]
              [] answer \in {"y", "a"} -> [policy |-> "Always", result |-> "true"]
              [] answer = "n" -> [policy |-> pol, result |-> "false"]
              [] answer = "c" -> [policy |-> pol, result |-> "exit0"]
              [] OTHER -> [policy |-> pol, result |-> "again"]

\* OverwritePolicy::confirm_overwrite for one line of input: the policy
\* afterwards and "true", "false", "error", "exit0", "exit1" or "again"
confirm_overwrite(pol, answer) ==
    CASE pol = "Always" -> [policy |-> pol, result |-> "true"]
      [] pol = "Never" -> [policy |-> pol, result |-> "error"]
      [] pol = "Ask" ->
            CASE answer = "eof" -> [policy |-> pol, result |-> "exit1"]
              [] answer = "y" -> [policy |-> pol, result |-> "true"]
              [] answer = "n" -> [policy |-> pol, result |-> "false"]
              [] answer = "a" -> [policy |-> "Always", result |-> "true"]
              [] answer = "c" -> [policy |-> pol, result |-> "exit0"]
              [] OTHER -> [policy |-> pol, result |-> "again"]

(***************************************************************************)
(* The state of one invocation of gsc cp.                                  *)
(***************************************************************************)
VARIABLES
    pc,              \* "args", "cmd", "dn_pattern", "dn_one", "dn_files",
                     \* "prompt", "download", "up_hw", "up_list", "up_one", "exit"
    argv,            \* the command line: SRC tokens, the DST token, the flags
    overwrite,       \* Config::overwrite
    command,         \* Command::Cp { srcs, dst }
    mode,            \* DstType of cp_dn, or the branch of cp_up
    srcs,            \* src_rpats of cp_dn, srcs of cp_up
    dst,             \* the destination of cp
    policy,          \* the policy of cp_dn, a copy of Config::overwrite
    si,              \* the position of the source loops
    src_metas,       \* the files of the current pattern still to be copied
    file_dst,        \* the local path the current file goes to
    upname,          \* the remote name an upload to a named destination uses
    reprompts,       \* unrecognised answers given so far
    fs,              \* the local file system
    remote,          \* the server's files, by homework
    submissions,     \* the server's submissions, by user
    credentials,     \* the credentials file
    submission_uris, \* GscClient::submission_uris
    had_warning,     \* GscClient::had_warning
    warnings,        \* the warnings printed
    ioLog,           \* file system accesses, requests and prompts, in order
    error,           \* the error do_it returned
    exit             \* the exit status of the process, -1 while it runs

vars == <<pc, argv, overwrite, command, mode, srcs, dst, policy, si, src_metas,
          file_dst, upname, reprompts, fs, remote, submissions, credentials,
          submission_uris, had_warning, warnings, ioLog, error, exit>>

\* what an invocation never changes
env == <<argv, submissions, credentials>>

\* the position of cp's loops
loop == <<si, src_metas, file_dst>>

(***************************************************************************)
(* The inputs.                                                             *)
(***************************************************************************)
t_a_c == <<"a", ".", "c">>
t_b_c == <<"b", ".", "c">>
t_dotdot == <<".", ".">>
t_o == <<"o">>
t_o_slash == <<"o", "/">>
t_hw1 == <<"h", "w", "1">>
t_hw1_all == <<"h", "w", "1", ":">>
t_hw1_glob == <<"h", "w", "1", ":", "*", ".", "c">>
t_hw1_star == <<"h", "w", "1", ":", "*">>
t_hw2_all == <<"h", "w", "2", ":">>

\* a.c is a local file, b.c is missing, ".." has no base file name; "*.c"
\* matches one file or none and "*" several; the user has no homework 2
SrcTokens == {t_a_c, t_b_c, t_dotdot, t_hw1_all, t_hw1_glob, t_hw1_star, t_hw2_all}

DstTokens == {t_o, t_o_slash, t_hw1, t_hw1_all, t_hw1_glob, t_hw1_star}

SrcLists == UNION {[1..n -> SrcTokens] : n \in 1..MaxSrcs}

n_src == <<"s", "r", "c">>

\* the working directory holds a.c; o is absent, a file, or a directory that
\* already holds a.c and src/a.c
FsAbsent == (<<t_a_c>> :> FileEntry(LocalData(t_a_c)))

FsFile == FsAbsent @@ (<<t_o>> :> FileEntry(OldData))

FsDir ==
    FsAbsent @@ (<<t_o>> :> DirEntry) @@ (<<t_o, t_a_c>> :> FileEntry(OldData))
             @@ (<<t_o, n_src>> :> DirEntry)
             @@ (<<t_o, n_src, t_a_c>> :> FileEntry(OldData))
             @@ (<<t_o, <<"b", ".", "h">>>> :> FileEntry(OldData))

\* a directory where a plain file has the name of a purpose directory
FsBlocked ==
    FsAbsent @@ (<<t_o>> :> DirEntry) @@ (<<t_o, t_a_c>> :> FileEntry(OldData))
             @@ (<<t_o, <<"t", "e", "s", "t">>>> :> FileEntry(OldData))

FsStates == {FsAbsent, FsFile, FsDir, FsBlocked}

f_a == FileMeta(1, t_a_c, "Source", RemoteData(1, t_a_c))
t_b_h == <<"b", ".", "h">>
f_b == FileMeta(1, t_b_h, "Test", RemoteData(1, t_b_h))
f_l == FileMeta(1, <<"l">>, "Log", RemoteData(1, <<"l">>))
f_r == FileMeta(1, <<"r">>, "Resource", RemoteData(1, <<"r">>))
f_m == FileMeta(1, <<"m">>, "Config", RemoteData(1, <<"m">>))
f_f == FileMeta(1, <<"f">>, "Forbidden", RemoteData(1, <<"f">>))

\* what the server holds for homework 1
Listings == {<<f_a, f_l, f_b>>, <<f_r, f_m, f_f>>}

Init ==
    /\ pc = "args"
    /\ argv \in [srcs : SrcLists, dst : DstTokens, all : BOOLEAN,
                 ow : {"ALWAYS", "NEVER", "ASK"}]
    /\ overwrite = "Ask"
    /\ command = [srcs |-> <<>>, dst |-> Local(NoText)]
    /\ mode = "none"
    /\ srcs = <<>>
    /\ dst = Local(NoText)
    /\ policy = "Ask"
    /\ si = 0
    /\ src_metas = <<>>
    /\ file_dst = NoText
    /\ upname = NoText
    /\ reprompts = 0
    /\ fs \in FsStates
    /\ \E files \in Listings : remote = (1 :> files)
    /\ submissions = [u \in {"u"} |-> <<1>>]
    /\ credentials = [some |-> TRUE, username |-> "u"]
    /\ submission_uris = <<>>
    /\ had_warning = FALSE
    /\ warnings = <<>>
    /\ ioLog = <<>>
    /\ error = NoError
    /\ exit = -1

(***************************************************************************)
(* How a step of cp ends.                                                  *)
(***************************************************************************)
\* the process ends: main's exit(1) and exit(2), or falling off main
Exit(code, e) == pc' = "exit" /\ exit' = code /\ error' = e

\* an error returned to do_it and printed by main, which exits with 1; a
\* panic ends the process with 101 instead
Fatal(e) ==
    /\ Exit(IF e.kind = "Panic" THEN 101 ELSE 1, e)
    /\ UNCHANGED <<had_warning, warnings, loop>>

\* Ok(()) returned to do_it
Done == Exit(IF had_warning THEN 2 ELSE 0, NoError) /\ UNCHANGED <<had_warning, warnings, loop>>

\* the next iteration of the loop over src_rpats, cp_dn returning after the last
NextPattern(w, ws) ==
    /\ had_warning' = w
    /\ warnings' = ws
    /\ src_metas' = <<>>
    /\ file_dst' = NoText
    /\ si' = si + 1
    /\ IF si + 1 > Len(srcs)
       THEN Exit(IF w THEN 2 ELSE 0, NoError)
       ELSE pc' = "dn_pattern" /\ UNCHANGED <<exit, error>>

\* GscClient::warn
WarnSet(e) == Append(warnings, e)

\* an error of the loop body that is returned and not caught
try_warn_fatal(e) == Fatal(e)

\* try_warn around the body of the loop over src_rpats
try_warn(e) == NextPattern(TRUE, WarnSet(e))

\* an error inside cp_dn's per-pattern work: a warning in the loop of the
\* directory case, returned with ? everywhere else
Fail(e) == IF mode = "Dir" THEN try_warn(e) ELSE Fatal(e)

\* the files still to copy of the current pattern, or the end of the pattern
AdvanceFiles(rest) ==
    IF rest # <<>>
    THEN /\ pc' = "dn_files"
         /\ src_metas' = rest
         /\ file_dst' = NoText
         /\ UNCHANGED <<exit, error, had_warning, warnings, si>>
    ELSE IF mode = "Dir" THEN NextPattern(had_warning, warnings)
    ELSE Done

(***************************************************************************)
(* Argument processing.                                                    *)
(***************************************************************************)
\* process_overwrite_opts
process_overwrite_opts(ow) ==
    CASE ow = "ALWAYS" -> "Always"
      [] ow = "NEVER" -> "Never"
      [] OTHER -> "Ask"

\* the loop over SRC of GscClientApp::process for cp: the parsed sources, or
\* the error of the first token that does not parse or needs the -a flag
RECURSIVE ProcessSrcs(_, _, _)
ProcessSrcs(tokens, all, acc) ==
    IF tokens = <<>> THEN [err |-> NoError, srcs |-> acc]
    ELSE LET arg == parse_cp_arg(Head(tokens)) IN
         IF ~arg.ok THEN [err |-> arg.err, srcs |-> <<>>]
         ELSE IF is_whole_hw(arg.arg) /\ ~all
         THEN [err |-> ErrText("CommandRequiresFlag", <<"c", "p">>), srcs |-> <<>>]
         ELSE ProcessSrcs(Tail(tokens), all, Append(acc, arg.arg))

\* GscClientApp::process, the cp subcommand
Process ==
    /\ pc = "args"
    /\ overwrite' = process_overwrite_opts(argv.ow)
    /\ LET d == parse_cp_arg(argv.dst)
           ss == ProcessSrcs(argv.srcs, argv.all, <<>>)
       IN  IF ~d.ok THEN Fatal(d.err) /\ UNCHANGED command
           ELSE IF ss.err.kind # "none" THEN Fatal(ss.err) /\ UNCHANGED command
           ELSE /\ command' = [srcs |-> ss.srcs, dst |-> d.arg]
                /\ pc' = "cmd"
                /\ UNCHANGED <<exit, error, had_warning, warnings, loop>>
    /\ UNCHANGED <<env, mode, srcs, dst, policy, upname, reprompts, fs, remote,
                   submission_uris, ioLog>>

(***************************************************************************)
(* cp.                                                                     *)
(***************************************************************************)
\* the first source with the given tag, 0 when there is none
RECURSIVE FirstTagged(_, _, _)
FirstTagged(args, tag, i) ==
    IF i > Len(args) THEN 0
    ELSE IF args[i].tag = tag THEN i
    ELSE FirstTagged(args, tag, i + 1)

\* a classification that looks at the first source only
cp_dn_first_local_head(raw_srcs) ==
    IF raw_srcs[1].tag = "Local" THEN 1 ELSE 0

\* the loop of cp_dn over raw_srcs: the first Local source, 0 when all are Remote
cp_dn_first_local(raw_srcs) == FirstTagged(raw_srcs, "Local", 1)

\* a classification that stops looking after a Local source
cp_up_first_remote_head(raw_srcs) ==
    IF raw_srcs[1].tag = "Remote" THEN 1 ELSE 0

\* the loop of cp_up over raw_srcs: the first Remote source, 0 when all are Local
cp_up_first_remote(raw_srcs) == FirstTagged(raw_srcs, "Remote", 1)

\* dst_type of cp_dn, "Err" for an error of metadata() other than NotFound
dst_type(f, path) ==
    CASE Metadata(f, path) = "dir" -> "Dir"
      [] Metadata(f, path) = "file" -> "File"
      [] Metadata(f, path) = "notfound" -> "DoesNotExist"
      [] OTHER -> "Err"

\* the checks without the count of the sources of the DoesNotExist case
cp_dn_check_file_only(dtype, src_rpats, path) ==
    IF dtype # "File" THEN NoError
    ELSE IF Len(src_rpats) # 1 THEN Err("MultipleSourcesOneDestination")
    ELSE IF RpatIsWholeHw(src_rpats[1])
    THEN [ErrText("SourceHwToDestinationFile", path) EXCEPT !.hw = src_rpats[1].hw]
    ELSE NoError

\* the checks without the whole-homework test of the File case
cp_dn_check_no_hw(dtype, src_rpats, path) ==
    IF dtype = "Dir" THEN NoError
    ELSE IF Len(src_rpats) # 1 THEN Err("MultipleSourcesOneDestination")
    ELSE NoError

\* the checks with the whole-homework test of the File case taken first
cp_dn_check_hw_first(dtype, src_rpats, path) ==
    IF dtype = "Dir" THEN NoError
    ELSE IF dtype = "File" /\ RpatIsWholeHw(src_rpats[1])
    THEN [ErrText("SourceHwToDestinationFile", path) EXCEPT !.hw = src_rpats[1].hw]
    ELSE IF Len(src_rpats) # 1 THEN Err("MultipleSourcesOneDestination")
    ELSE NoError

\* the checks that open the File and DoesNotExist cases of cp_dn
cp_dn_check(dtype, src_rpats, path) ==
    IF dtype = "Dir" THEN NoError
    ELSE IF Len(src_rpats) # 1 THEN Err("MultipleSourcesOneDestination")
    ELSE IF dtype = "File" /\ RpatIsWholeHw(src_rpats[1])
    THEN [ErrText("SourceHwToDestinationFile", path) EXCEPT !.hw = src_rpats[1].hw]
    ELSE NoError

\* cp_dn up to its first request: the classification of the sources, the
\* probe of the destination and the checks of the File and DoesNotExist cases
cp_dn ==
    LET bad == cp_dn_first_local(command.srcs)
        path == command.dst.path
        meta == dst_type(fs, path)
        probe == Ev("metadata", 0, path)
        one == command.srcs[1]
        check == cp_dn_check(meta, command.srcs, path)
    IN  /\ srcs' = command.srcs
        /\ dst' = command.dst
        /\ UNCHANGED <<upname, remote, submission_uris>>
        /\ IF bad # 0
           THEN /\ Fatal(cannot_copy_local_to_local(command.srcs[bad].path, path))
                /\ UNCHANGED <<mode, policy, fs, ioLog>>
           ELSE IF meta = "Err"
           THEN /\ Fatal(ErrText("Io", path))
                /\ ioLog' = Append(ioLog, probe)
                /\ UNCHANGED <<mode, policy, fs>>
           ELSE /\ policy' = overwrite
                /\ mode' = CASE meta = "Dir" -> "Dir"
                             [] meta = "File" -> "File"
                             [] meta = "DoesNotExist" ->
                                   IF Len(command.srcs) = 1 /\ RpatIsWholeHw(one)
                                   THEN "NewDir" ELSE "NewFile"
                /\ IF meta = "Dir"
                   THEN /\ pc' = "dn_pattern"
                        /\ si' = 1
                        /\ ioLog' = Append(ioLog, probe)
                        /\ UNCHANGED <<fs, exit, error, had_warning, warnings,
                                       src_metas, file_dst>>
                   ELSE IF check.kind # "none"
                   THEN /\ Fatal(check)
                        /\ ioLog' = Append(ioLog, probe)
                        /\ UNCHANGED fs
                   ELSE IF meta = "DoesNotExist" /\ RpatIsWholeHw(one)
                   THEN IF CanSoftCreateDir(fs, path)
                        THEN /\ fs' = SoftCreateDir(fs, path)
                             /\ ioLog' = ioLog \o <<probe, Ev("create_dir", 0, path)>>
                             /\ pc' = "dn_pattern"
                             /\ si' = 1
                             /\ UNCHANGED <<exit, error, had_warning, warnings,
                                            src_metas, file_dst>>
                        ELSE /\ Fatal(ErrText("Io", path))
                             /\ ioLog' = ioLog \o <<probe, Ev("create_dir", 0, path)>>
                             /\ UNCHANGED fs
                   ELSE /\ pc' = "dn_one"
                        /\ si' = 1
                        /\ ioLog' = Append(ioLog, probe)
                        /\ UNCHANGED <<fs, exit, error, had_warning, warnings,
                                       src_metas, file_dst>>

\* cp_up up to its first request: the classification of the sources and the
\* count of the sources of a named destination
cp_up ==
    LET bad == cp_up_first_remote(command.srcs) IN
    /\ srcs' = command.srcs
    /\ dst' = command.dst
    /\ UNCHANGED <<policy, upname, fs, remote, submission_uris, ioLog>>
    /\ IF bad # 0
       THEN Fatal(Err("CannotCopyRemoteToRemote")) /\ UNCHANGED mode
       ELSE IF RpatIsWholeHw(command.dst)
       THEN /\ mode' = "UpHw"
            /\ pc' = "up_hw"
            /\ si' = 1
            /\ UNCHANGED <<exit, error, had_warning, warnings, src_metas, file_dst>>
       ELSE IF Len(command.srcs) # 1
       THEN Fatal(Err("MultipleSourcesOneDestination")) /\ UNCHANGED mode
       ELSE /\ mode' = "UpOne"
            /\ pc' = "up_list"
            /\ si' = 1
            /\ UNCHANGED <<exit, error, had_warning, warnings, src_metas, file_dst>>

\* GscClient::cp, called by do_it
Cp ==
    /\ pc = "cmd"
    /\ IF command.dst.tag = "Local" THEN cp_dn ELSE cp_up
    /\ UNCHANGED <<env, overwrite, command, reprompts>>

(***************************************************************************)
(* Downloads.                                                              *)
(***************************************************************************)
\* whether the loops over files can be entered with this cache state: the
\* submissions request happens only on a cache miss
NetSubChoices == IF credentials.some /\ credentials.username \in DOMAIN submission_uris
                 THEN {TRUE} ELSE BOOLEAN

\* going on to the download whatever the policy says
StartConfirm_unasked(path, files) ==
    /\ pc' = "download"
    /\ src_metas' = files
    /\ file_dst' = path
    /\ UNCHANGED <<exit, error, had_warning, warnings, si>>

\* the call of confirm_overwrite for the path: decided at once under Always
\* and Never, a prompt under Ask
StartConfirm(path, files) ==
    LET r == confirm_overwrite(policy, "?") IN
    IF policy = "Ask"
    THEN /\ pc' = "prompt"
         /\ src_metas' = files
         /\ file_dst' = path
         /\ UNCHANGED <<exit, error, had_warning, warnings, si>>
    ELSE IF r.result = "true"
    THEN /\ pc' = "download"
         /\ src_metas' = files
         /\ file_dst' = path
         /\ UNCHANGED <<exit, error, had_warning, warnings, si>>
    ELSE Fail(ErrText("DestinationFileExists", path))

\* the events of a call of confirm_overwrite when it starts
ConfirmLog(path) ==
    IF policy = "Ask" THEN <<Ev("prompt", 0, path)>>
    ELSE IF policy = "Always" THEN <<Ev("approve", 0, path)>>
    ELSE <<>>

\* the File and DoesNotExist cases of cp_dn with one pattern that names files:
\* fetch_one_matching_filename, then confirm_overwrite when dst exists
CpDnOne ==
    /\ pc = "dn_one"
    /\ \E netSub \in NetSubChoices, netList \in BOOLEAN :
          LET r == fetch_one_matching_filename(submission_uris, submissions, credentials,
                                               remote, srcs[1], netSub, netList)
          IN  /\ submission_uris' = r.cache
              /\ IF r.err.kind # "none"
                 THEN Fatal(r.err) /\ ioLog' = ioLog \o r.log
                 ELSE IF mode = "File"
                 THEN /\ StartConfirm(dst.path, r.files)
                      /\ ioLog' = ioLog \o r.log \o ConfirmLog(dst.path)
                 ELSE /\ pc' = "download"
                      /\ src_metas' = r.files
                      /\ file_dst' = dst.path
                      /\ ioLog' = ioLog \o r.log
                      /\ UNCHANGED <<exit, error, had_warning, warnings, si>>
    /\ UNCHANGED <<env, overwrite, command, mode, srcs, dst, policy, upname,
                   reprompts, fs, remote>>

\* one iteration of the loop over src_rpats, up to the listing: download_hw's
\* fetch_matching_file_list for a whole homework, and
\* fetch_nonempty_matching_file_list for a pattern
CpDnPattern ==
    /\ pc = "dn_pattern"
    /\ \E netSub \in NetSubChoices, netList \in BOOLEAN :
          LET rpat == srcs[si]
              r == IF RpatIsWholeHw(rpat)
                   THEN fetch_matching_file_list(submission_uris, submissions, credentials,
                            remote, Remote(rpat.hw, NoText), netSub, netList)
                   ELSE fetch_nonempty_matching_file_list(submission_uris, submissions,
                            credentials, remote, rpat, netSub, netList)
          IN  /\ submission_uris' = r.cache
              /\ ioLog' = ioLog \o r.log
              /\ IF r.err.kind # "none" THEN Fail(r.err) ELSE AdvanceFiles(r.files)
    /\ UNCHANGED <<env, overwrite, command, mode, srcs, dst, policy, upname,
                   reprompts, fs, remote>>

\* where the file goes: under the purpose's directory for a whole homework
PurposeDir(meta) == PathPush(dst.path, to_dir(meta.purpose))

FileDst(meta) ==
    IF RpatIsWholeHw(srcs[si])
    THEN PathPush(PurposeDir(meta), meta.name)
    ELSE PathPush(dst.path, meta.name)

\* one iteration of the loops over src_metas, up to the download: the Log
\* files of a whole homework are passed over, the directory of the purpose is
\* created, and is_okay_to_write_local consults the policy for an existing path
CpDnFile ==
    /\ pc = "dn_files"
    /\ LET meta == Head(src_metas)
           whole == RpatIsWholeHw(srcs[si])
           dir == PurposeDir(meta)
           mk == IF whole THEN <<Ev("create_dir", 0, dir)>> ELSE <<>>
           fs1 == IF whole THEN SoftCreateDir(fs, dir) ELSE fs
           path == FileDst(meta)
           probe == Ev("exists", 0, path)
       IN  IF whole /\ meta.purpose = "Log"
           THEN AdvanceFiles(Tail(src_metas)) /\ UNCHANGED <<fs, ioLog>>
           ELSE IF whole /\ ~CanSoftCreateDir(fs, dir)
           THEN Fail(ErrText("Io", dir)) /\ ioLog' = ioLog \o mk /\ UNCHANGED fs
           ELSE /\ fs' = fs1
                /\ IF PathExists(fs1, path)
                   THEN /\ StartConfirm(path, src_metas)
                        /\ ioLog' = ioLog \o mk \o <<probe>> \o ConfirmLog(path)
                   ELSE /\ pc' = "download"
                        /\ file_dst' = path
                        /\ ioLog' = ioLog \o mk \o <<probe>>
                        /\ UNCHANGED <<exit, error, had_warning, warnings, si, src_metas>>
    /\ UNCHANGED <<env, overwrite, command, mode, srcs, dst, policy, upname,
                   reprompts, remote, submission_uris>>

\* one line read by the prompt loop of confirm_overwrite under Ask
Prompt ==
    /\ pc = "prompt"
    /\ \E answer \in Answers :
          LET r == confirm_overwrite(policy, answer) IN
          /\ answer = "?" => reprompts < MaxReprompts
          /\ policy' = r.policy
          /\ reprompts' = IF r.result = "again" THEN reprompts + 1 ELSE reprompts
          /\ CASE r.result = "true" ->
                    /\ pc' = "download"
                    /\ ioLog' = ioLog \o <<Ev("read", 0, <<answer>>),
                                           Ev("approve", 0, file_dst)>>
                    /\ UNCHANGED <<exit, error, had_warning, warnings, loop>>
               [] r.result = "false" ->
                    /\ AdvanceFiles(Tail(src_metas))
                    /\ ioLog' = ioLog \o <<Ev("read", 0, <<answer>>),
                                           Ev("skip", 0, file_dst)>>
               [] r.result = "again" ->
                    /\ ioLog' = ioLog \o <<Ev("read", 0, <<answer>>),
                                           Ev("prompt", 0, file_dst)>>
                    /\ UNCHANGED <<pc, exit, error, had_warning, warnings, loop>>
               [] r.result = "exit0" ->
                    /\ Exit(0, NoError)
                    /\ ioLog' = Append(ioLog, Ev("read", 0, <<answer>>))
                    /\ UNCHANGED <<had_warning, warnings, loop>>
               [] r.result = "exit1" ->
                    /\ Exit(1, NoError)
                    /\ ioLog' = Append(ioLog, Ev("read", 0, <<answer>>))
                    /\ UNCHANGED <<had_warning, warnings, loop>>
               [] r.result = "error" ->
                    /\ Fail(ErrText("DestinationFileExists", file_dst))
                    /\ UNCHANGED ioLog
    /\ UNCHANGED <<env, overwrite, command, mode, srcs, dst, upname, fs, remote,
                   submission_uris>>

\* a download that sends the GET first and opens the destination only for
\* the response
download_file_get_first ==
    /\ pc = "download"
    /\ \E netGet \in BOOLEAN :
          LET meta == Head(src_metas)
              cs == Components(file_dst)
              open == Ev("open", 0, file_dst)
              get == Ev("GET file", meta.hw, meta.name)
          IN  IF ~credentials.some
              THEN Fail(Err("LoginPlease")) /\ UNCHANGED <<fs, ioLog>>
              ELSE IF ~netGet
              THEN /\ Fail(Err("ServerError"))
                   /\ ioLog' = Append(ioLog, get)
                   /\ UNCHANGED fs
              ELSE IF ~CanOpenForWrite(fs, file_dst)
              THEN /\ Fail(ErrText("Io", file_dst))
                   /\ ioLog' = Append(ioLog, get)
                   /\ UNCHANGED fs
              ELSE /\ AdvanceFiles(Tail(src_metas))
                   /\ fs' = FsPut(fs, cs, FileEntry(meta.data))
                   /\ ioLog' = ioLog \o <<get, open>>
    /\ UNCHANGED <<env, overwrite, command, mode, srcs, dst, policy, upname,
                   reprompts, remote, submission_uris>>

\* download_file: open the destination for truncating write, GET the file,
\* copy the response into it
download_file ==
    /\ pc = "download"
    /\ \E netGet \in BOOLEAN :
          LET meta == Head(src_metas)
              cs == Components(file_dst)
              open == Ev("open", 0, file_dst)
              get == Ev("GET file", meta.hw, meta.name)
          IN  IF ~CanOpenForWrite(fs, file_dst)
              THEN Fail(ErrText("Io", file_dst)) /\ UNCHANGED <<fs, ioLog>>
              ELSE IF ~credentials.some
              THEN /\ Fail(Err("LoginPlease"))
                   /\ fs' = FsPut(fs, cs, FileEntry(NoData))
                   /\ ioLog' = Append(ioLog, open)
              ELSE IF ~netGet
              THEN /\ Fail(Err("ServerError"))
                   /\ fs' = FsPut(fs, cs, FileEntry(NoData))
                   /\ ioLog' = ioLog \o <<open, get>>
              ELSE /\ AdvanceFiles(Tail(src_metas))
                   /\ fs' = FsPut(fs, cs, FileEntry(meta.data))
                   /\ ioLog' = ioLog \o <<open, get>>
    /\ UNCHANGED <<env, overwrite, command, mode, srcs, dst, policy, upname,
                   reprompts, remote, submission_uris>>

(***************************************************************************)
(* Uploads.                                                                *)
(***************************************************************************)
\* one iteration of the loop of cp_up over the sources of a whole-homework
\* destination: a source without a base file name is a warning, upload_file's
\* error is returned with ?
CpUpHw ==
    /\ pc = "up_hw"
    /\ \E netSub \in NetSubChoices, netPut \in BOOLEAN :
          LET src == srcs[si].path
              base == get_base_filename(src)
              r == upload_file(fs, submission_uris, submissions, credentials, remote,
                               src, dst.hw, base.name, netSub, netPut)
              last == si + 1 > Len(srcs)
          IN  IF base.err.kind # "none"
              THEN /\ had_warning' = TRUE
                   /\ warnings' = WarnSet(base.err)
                   /\ si' = si + 1
                   /\ IF last THEN Exit(2, NoError)
                      ELSE UNCHANGED <<pc, exit, error>>
                   /\ UNCHANGED <<src_metas, file_dst, remote, submission_uris, ioLog>>
              ELSE /\ submission_uris' = r.cache
                   /\ ioLog' = ioLog \o r.log
                   /\ remote' = r.remote
                   /\ IF r.err.kind # "none"
                      THEN Fatal(r.err)
                      ELSE /\ si' = si + 1
                           /\ IF last THEN Exit(IF had_warning THEN 2 ELSE 0, NoError)
                              ELSE UNCHANGED <<pc, exit, error>>
                           /\ UNCHANGED <<had_warning, warnings, src_metas, file_dst>>
    /\ UNCHANGED <<env, overwrite, command, mode, srcs, dst, policy, upname,
                   reprompts, fs>>

\* a choice that refuses to replace the matching file under Never
dest_filename_guarded(dstp, dsts) ==
    IF Len(dsts) = 0 THEN [err |-> NoError, name |-> dstp.name]
    ELSE IF Len(dsts) = 1
    THEN IF overwrite = "Never"
         THEN [err |-> ErrText("DestinationFileExists", dsts[1].name), name |-> NoText]
         ELSE [err |-> NoError, name |-> dsts[1].name]
    ELSE [err |-> [Err("DestinationPatternIsMultiple") EXCEPT
                      !.hw = dstp.hw, !.text = dstp.name,
                      !.files = [i \in 1..Len(dsts) |-> dsts[i].name]],
          name |-> NoText]

\* a choice that keeps the destination's own text when one file matches
dest_filename_own(dstp, dsts) ==
    IF Len(dsts) <= 1 THEN [err |-> NoError, name |-> dstp.name]
    ELSE [err |-> [Err("DestinationPatternIsMultiple") EXCEPT
                      !.hw = dstp.hw, !.text = dstp.name,
                      !.files = [i \in 1..Len(dsts) |-> dsts[i].name]],
          name |-> NoText]

\* the name cp_up uploads under, from the files that match the destination
dest_filename(dstp, dsts) ==
    IF Len(dsts) = 0 THEN [err |-> NoError, name |-> dstp.name]
    ELSE IF Len(dsts) = 1 THEN [err |-> NoError, name |-> dsts[1].name]
    ELSE [err |-> [Err("DestinationPatternIsMultiple") EXCEPT
                      !.hw = dstp.hw, !.text = dstp.name,
                      !.files = [i \in 1..Len(dsts) |-> dsts[i].name]],
          name |-> NoText]

\* cp_up for a destination that names a file: the listing of the destination
\* pattern chooses the name to upload under
CpUpResolve ==
    /\ pc = "up_list"
    /\ \E netSub \in NetSubChoices, netList \in BOOLEAN :
          LET r == fetch_matching_file_list(submission_uris, submissions, credentials,
                                            remote, dst, netSub, netList)
          IN  /\ submission_uris' = r.cache
              /\ ioLog' = ioLog \o r.log
              /\ IF r.err.kind # "none"
                 THEN Fatal(r.err) /\ UNCHANGED upname
                 ELSE IF dest_filename(dst, r.files).err.kind # "none"
                 THEN Fatal(dest_filename(dst, r.files).err) /\ UNCHANGED upname
                 ELSE /\ upname' = dest_filename(dst, r.files).name
                      /\ pc' = "up_one"
                      /\ UNCHANGED <<exit, error, had_warning, warnings, loop>>
    /\ UNCHANGED <<env, overwrite, command, mode, srcs, dst, policy, reprompts,
                   fs, remote>>

\* cp_up for a destination that names a file: the upload under the chosen name
CpUpOne ==
    /\ pc = "up_one"
    /\ \E netSub \in NetSubChoices, netPut \in BOOLEAN :
          LET r == upload_file(fs, submission_uris, submissions, credentials, remote,
                               srcs[1].path, dst.hw, upname, netSub, netPut)
          IN  /\ submission_uris' = r.cache
              /\ ioLog' = ioLog \o r.log
              /\ remote' = r.remote
              /\ IF r.err.kind # "none" THEN Fatal(r.err) ELSE Done
    /\ UNCHANGED <<env, overwrite, command, mode, srcs, dst, policy, upname,
                   reprompts, fs>>

(***************************************************************************)
(* The specification.                                                      *)
(***************************************************************************)
Next ==
    \/ Process
    \/ Cp
    \/ CpDnOne
    \/ CpDnPattern
    \/ CpDnFile
    \/ Prompt
    \/ download_file
    \/ CpUpHw
    \/ CpUpResolve
    \/ CpUpOne

Spec == Init /\ [][Next]_vars

(***************************************************************************)
(* The listing functions on their own.                                     *)
(***************************************************************************)
\* the longest listing of the server
MaxFiles == 2

\* the patterns asked for: the empty one, wildcards, character classes, a
\* literal name, and a class that is not closed
FetchPatterns ==
    {<<>>, <<"*">>, <<"*", ".", "c">>, <<"?", ".", "c">>,
     <<"[", "a", "b", "]", ".", "c">>, <<"[", "!", "a", "]", ".", "c">>,
     <<"a", ".", "c">>, <<"[", "a">>}

FetchNames == {t_a_c, t_b_c, <<"c", ".", "h">>, <<"a", "b", ".", "c">>}

\* the listings of at most MaxFiles files with different names
FetchListings ==
    {[i \in 1..Len(names) |-> FileMeta(1, names[i], "Source", RemoteData(1, names[i]))] :
        names \in UNION {[1..m -> FetchNames] : m \in 0..MaxFiles}}

FetchListingsOk ==
    {l \in FetchListings :
        \A i, j \in 1..Len(l) : i # j => l[i].name # l[j].name}

\* a client that is about to ask for the files of a pattern
FetchInit ==
    /\ pc = "fetch"
    /\ argv = [srcs |-> <<>>, dst |-> NoText, all |-> FALSE, ow |-> "ASK"]
    /\ overwrite = "Ask"
    /\ command = [srcs |-> <<>>, dst |-> Local(NoText)]
    /\ mode = "none"
    /\ \E hw \in {1, 2}, p \in FetchPatterns : srcs = <<Remote(hw, p)>>
    /\ dst = Local(NoText)
    /\ policy = "Ask"
    /\ si = 1
    /\ src_metas = <<>>
    /\ file_dst = NoText
    /\ upname = NoText
    /\ reprompts = 0
    /\ fs = FsAbsent
    /\ \E files \in FetchListingsOk : remote = (1 :> files)
    /\ submissions = [u \in {"u"} |-> <<1>>]
    /\ credentials = [some |-> TRUE, username |-> "u"]
    /\ submission_uris = <<>>
    /\ had_warning = FALSE
    /\ warnings = <<>>
    /\ ioLog = <<>>
    /\ error = NoError
    /\ exit = -1

\* the result of a listing function is handed to the caller
Fetched(which, r) ==
    /\ pc' = "fetched"
    /\ mode' = which
    /\ src_metas' = r.files
    /\ error' = r.err
    /\ ioLog' = ioLog \o r.log
    /\ submission_uris' = r.cache
    /\ UNCHANGED <<env, overwrite, command, srcs, dst, policy, si, file_dst, upname,
                   reprompts, fs, remote, had_warning, warnings, exit>>

\* a call of fetch_matching_file_list
FetchMatching ==
    /\ pc = "fetch"
    /\ \E netSub \in NetSubChoices, netList \in BOOLEAN :
          Fetched("matching",
                  fetch_matching_file_list(submission_uris, submissions, credentials,
                                           remote, srcs[1], netSub, netList))

\* a call of fetch_nonempty_matching_file_list
FetchNonempty ==
    /\ pc = "fetch"
    /\ \E netSub \in NetSubChoices, netList \in BOOLEAN :
          Fetched("nonempty",
                  fetch_nonempty_matching_file_list(submission_uris, submissions,
                                                    credentials, remote, srcs[1],
                                                    netSub, netList))

FetchNext ==
    \/ FetchMatching
    \/ FetchNonempty

SpecFetch == FetchInit /\ [][FetchNext]_vars

(***************************************************************************)
(* The cache of submission URIs on its own: lookups for two users of one   *)
(* client, as the commands that name a user make them.                     *)
(***************************************************************************)
MaxLookups == 4

MaxNumber == 2

CacheUsers == {"u", "v"}

\* what the server lists for each user
CacheSubmissions ==
    {[u \in CacheUsers |-> IF u = "u" THEN <<1>> ELSE <<0, 2>>],
     [u \in CacheUsers |-> IF u = "u" THEN <<>> ELSE <<1>>]}

\* a client that has looked nothing up yet
CacheInit ==
    /\ pc = "cache"
    /\ argv = [srcs |-> <<>>, dst |-> NoText, all |-> FALSE, ow |-> "ASK"]
    /\ overwrite = "Ask"
    /\ command = [srcs |-> <<>>, dst |-> Local(NoText)]
    /\ mode = "none"
    /\ srcs = <<>>
    /\ dst = [user |-> "", number |-> 0, uri |-> NoUri]
    /\ policy = "Ask"
    /\ si = 0
    /\ src_metas = <<>>
    /\ file_dst = NoText
    /\ upname = NoText
    /\ reprompts = 0
    /\ fs = FsAbsent
    /\ remote = (1 :> <<>>)
    /\ submissions \in CacheSubmissions
    /\ credentials = [some |-> TRUE, username |-> "u"]
    /\ submission_uris = <<>>
    /\ had_warning = FALSE
    /\ warnings = <<>>
    /\ ioLog = <<>>
    /\ error = NoError
    /\ exit = -1

\* one call of get_uri_for_submission; the request of a miss is logged with
\* the user it asks about, and after it how the server answered
Lookup ==
    /\ pc = "cache"
    /\ si < MaxLookups
    /\ \E user \in CacheUsers, number \in 0..MaxNumber :
       \E netSub \in IF user \in DOMAIN submission_uris THEN {TRUE} ELSE BOOLEAN :
          LET r == get_uri_for_submission(submission_uris, submissions, user, number,
                                          netSub)
          IN  /\ submission_uris' = r.cache
              /\ error' = r.err
              /\ dst' = [user |-> user, number |-> number,
                         uri |-> IF r.err = NoError THEN r.cache[user][number + 1]
                                 ELSE NoUri]
              /\ ioLog' = ioLog \o
                    [i \in 1..Len(r.log) |-> Ev(r.log[i].op, 0, <<user>>)] \o
                    (IF r.log = <<>> THEN <<>>
                     ELSE <<Ev(IF netSub THEN "response ok" ELSE "response error",
                               0, <<user>>)>>)
    /\ si' = si + 1
    /\ UNCHANGED <<pc, env, overwrite, command, mode, srcs, policy, src_metas, file_dst,
                   upname, reprompts, fs, remote, had_warning, warnings, exit>>

CacheNext == Lookup

SpecCache == CacheInit /\ [][CacheNext]_vars

(***************************************************************************)
(* The parsers of remote patterns on their own.                            *)
(***************************************************************************)
\* the most digits of a homework number in a token
MaxDigits == 2

DigitStrings == UNION {[1..n -> {"0", "1", "2"}] : n \in 1..MaxDigits}

ParseNames == {<<>>, <<"a">>, <<"a", ":", "b">>, <<"0", "1">>, <<"*", ".", "c">>}

\* a number one above usize::MAX
TooBig ==
    <<"1", "8", "4", "4", "6", "7", "4", "4", "0", "7",
      "3", "7", "0", "9", "5", "5", "1", "6", "1", "6">>

\* tokens whose number str::parse::<usize>() refuses
BigTokens ==
    {<<"h", "w">> \o ds \o rest :
        ds \in {TooBig, <<"1">> \o TooBig, <<ArabicThree>>},
        rest \in {<<>>, <<":">>, <<":", "a">>}}

\* local files, the empty token, and colons that follow no homework
OtherTokens ==
    {<<>>, <<":">>, <<":", "a">>, <<":", "a", ":", "b">>, <<":", "h", "w", "1">>,
     <<":", "a", "\n", "b">>, <<":", "\n">>, <<"a", ":", "b">>, <<"a", ":">>,
     <<"h", "w">>, <<"a", "\n">>, <<"h", "w", "1", ":", "\n", "a">>}

\* hw<N> and hw<N>:<name>, and some tokens that are neither
ParseTokens ==
    {<<"h", "w">> \o ds \o rest :
        ds \in DigitStrings, rest \in {<<>>} \cup {<<":">> \o n : n \in ParseNames}}
    \cup {<<"h", "w", ":">>, <<"h", "1", ":", "a">>, <<"h", "w", "1", "a", ":", "b">>,
          <<"a">>, <<"h", "w", "1", ":", "a", "\n">>}
    \cup OtherTokens \cup BigTokens

\* a parser that is about to be given a token
ParseInit ==
    /\ pc = "parse"
    /\ \E token \in ParseTokens :
          argv = [srcs |-> <<>>, dst |-> token, all |-> FALSE, ow |-> "ASK"]
    /\ overwrite = "Ask"
    /\ command = [srcs |-> <<>>, dst |-> Local(NoText)]
    /\ mode = "none"
    /\ srcs = <<>>
    /\ dst = Local(NoText)
    /\ policy = "Ask"
    /\ si = 0
    /\ src_metas = <<>>
    /\ file_dst = NoText
    /\ upname = NoText
    /\ reprompts = 0
    /\ fs = FsAbsent
    /\ remote = (1 :> <<>>)
    /\ submissions = [u \in {"u"} |-> <<1>>]
    /\ credentials = [some |-> TRUE, username |-> "u"]
    /\ submission_uris = <<>>
    /\ had_warning = FALSE
    /\ warnings = <<>>
    /\ ioLog = <<>>
    /\ error = NoError
    /\ exit = -1

\* the parsed pattern is kept and, when there is one, displayed
Parsed(which, r) ==
    /\ pc' = "parsed"
    /\ mode' = which
    /\ dst' = r.arg
    /\ error' = r.err
    /\ upname' = IF r.ok THEN DisplayHwQual(r.arg) ELSE NoText
    /\ UNCHANGED <<env, overwrite, command, srcs, policy, loop, reprompts, fs, remote,
                   submission_uris, had_warning, warnings, ioLog, exit>>

\* a call of parse_hw_file
ParseHwFile == pc = "parse" /\ Parsed("hw_file", parse_hw_file(argv.dst))

\* a call of parse_hw_opt_file
ParseHwOptFile == pc = "parse" /\ Parsed("hw_opt_file", parse_hw_opt_file(argv.dst))

\* the result of a parser that is not displayed
Classified(which, r) ==
    /\ pc' = "classified"
    /\ mode' = which
    /\ dst' = r.arg
    /\ error' = r.err
    /\ UNCHANGED <<env, overwrite, command, srcs, policy, loop, upname, reprompts, fs,
                   remote, submission_uris, had_warning, warnings, ioLog, exit>>

\* a call of parse_cp_arg
ParseCpArg == pc = "parse" /\ Classified("cp_arg", parse_cp_arg(argv.dst))

\* a call of parse_remote_dest
ParseRemoteDest == pc = "parse" /\ Classified("remote_dest", parse_remote_dest(argv.dst))

\* a call of parse_hw
ParseHw ==
    /\ pc = "parse"
    /\ LET r == parse_hw(argv.dst) IN
       Classified("hw", [ok |-> r.ok, err |-> r.err,
                         arg |-> IF r.ok THEN just_hw(r.hw) ELSE Local(NoText)])

ParseNext ==
    \/ ParseHwFile
    \/ ParseHwOptFile
    \/ ParseCpArg
    \/ ParseRemoteDest
    \/ ParseHw

SpecParse == ParseInit /\ [][ParseNext]_vars

(***************************************************************************)
(* mv: the arguments, the resolution of the source, the completed          *)
(* destination, the overwrite policy and the PATCH.                        *)
(***************************************************************************)
\* fetch_exact_file_name: the file of the listing that has this very name
fetch_exact_file_name(cache, subs, creds, rem, hw, name, netSub, netList) ==
    LET uri == get_uri_for_submission_files(cache, subs, creds, hw, netSub)
        get == Ev("GET files", hw, NoText)
        found == SelectSeq(rem[hw], LAMBDA file : file.name = name)
    IN  IF uri.err.kind # "none"
        THEN [err |-> uri.err, files |-> <<>>, cache |-> uri.cache, log |-> uri.log]
        ELSE IF ~netList
        THEN [err |-> Err("ServerError"), files |-> <<>>,
              cache |-> uri.cache, log |-> Append(uri.log, get)]
        ELSE IF found = <<>>
        THEN [err |-> [Err("NoSuchRemoteFile") EXCEPT !.hw = hw, !.text = name],
              files |-> <<>>, cache |-> uri.cache, log |-> Append(uri.log, get)]
        ELSE [err |-> NoError, files |-> <<found[1]>>,
              cache |-> uri.cache, log |-> Append(uri.log, get)]

\* handle_response of a request that the server refused or that did not
\* arrive: the error is logged after the request
Refused(err) ==
    IF err.kind = "ServerError" THEN <<Ev("response error", 0, NoText)>> ELSE <<>>

\* the FileMetaChange of mv: the fields of part_dst that are given and differ
\* from the source
FileMetaChange(src, part_dst) ==
    [hw |-> IF part_dst.hw # NoHw /\ part_dst.hw # src.hw THEN part_dst.hw ELSE NoHw,
     name |-> IF part_dst.name # src.name /\ part_dst.name # <<>>
              THEN part_dst.name ELSE NoText]

\* the dst of mv: the source with the fields of the message put in
CompletedDst(src, message) ==
    Remote(IF message.hw # NoHw THEN message.hw ELSE src.hw,
           IF message.name # NoText THEN message.name ELSE src.name)

\* the server's lists after a successful PATCH of the file
ServerPatch(rem, src, to) ==
    LET without == [rem EXCEPT ![src.hw] =
                        SelectSeq(rem[src.hw], LAMBDA file : file.name # src.name)]
        moved == [src EXCEPT !.hw = to.hw, !.name = to.name]
    IN  [without EXCEPT ![to.hw] =
            Append(SelectSeq(without[to.hw], LAMBDA file : file.name # to.name), moved)]

t_hw1_a == <<"h", "w", "1", ":", "a", ".", "c">>
t_hw1_x == <<"h", "w", "1", ":", "x">>
t_hw2 == <<"h", "w", "2">>
t_hw2_a == <<"h", "w", "2", ":", "a", ".", "c">>
t_hw2_b == <<"h", "w", "2", ":", "b", ".", "h">>
t_hw3_a == <<"h", "w", "3", ":", "a", ".", "c">>

\* one file, one file by a pattern, several, none, a whole homework, no colon
MvSrcTokens == {t_hw1_a, t_hw1_glob, t_hw1_star, t_hw1_x, t_hw1_all, t_hw2_all, t_hw1}

\* the same file, a new name, the name of another file, another homework with
\* and without a file of the name, a homework the user lacks, a syntax error
MvDstTokens ==
    {t_a_c, t_b_c, t_b_h, t_hw1, t_hw1_a, t_hw2, t_hw2_all, t_hw2_a, t_hw2_b, t_hw3_a,
     NoText, <<"h", "w", ":", "a">>}

g_a == FileMeta(2, t_a_c, "Source", RemoteData(2, t_a_c))

\* what the server holds for homework 1 and homework 2
MvRemotes == {(1 :> <<f_a, f_b>>) @@ (2 :> <<g_a>>), (1 :> <<f_a, f_b>>) @@ (2 :> <<>>)}

\* gsc mv SRC DST
MvInit ==
    /\ pc = "mv_args"
    /\ argv \in [srcs : {<<t>> : t \in MvSrcTokens}, dst : MvDstTokens, all : {FALSE},
                 ow : {"ALWAYS", "NEVER", "ASK"}]
    /\ overwrite = "Ask"
    /\ command = [srcs |-> <<>>, dst |-> Local(NoText)]
    /\ mode = "none"
    /\ srcs = <<>>
    /\ dst = Local(NoText)
    /\ policy = "Ask"
    /\ si = 0
    /\ src_metas = <<>>
    /\ file_dst = NoText
    /\ upname = NoText
    /\ reprompts = 0
    /\ fs = FsAbsent
    /\ remote \in MvRemotes
    /\ submissions = [u \in {"u"} |-> <<1, 2>>]
    /\ credentials \in {[some |-> s, username |-> "u"] : s \in BOOLEAN}
    /\ submission_uris = <<>>
    /\ had_warning = FALSE
    /\ warnings = <<>>
    /\ ioLog = <<>>
    /\ error = NoError
    /\ exit = -1

\* GscClientApp::process, the mv subcommand
MvProcess ==
    /\ pc = "mv_args"
    /\ overwrite' = process_overwrite_opts(argv.ow)
    /\ LET s == parse_hw_file(argv.srcs[1])
           d == parse_remote_dest(argv.dst)
       IN  IF ~s.ok THEN Fatal(s.err) /\ UNCHANGED command
           ELSE IF ~d.ok THEN Fatal(d.err) /\ UNCHANGED command
           ELSE /\ command' = [srcs |-> <<s.arg>>, dst |-> d.arg]
                /\ pc' = "mv_cmd"
                /\ UNCHANGED <<exit, error, had_warning, warnings, loop>>
    /\ UNCHANGED <<env, mode, srcs, dst, policy, upname, reprompts, fs, remote,
                   submission_uris, ioLog>>

\* try_warn around the body of mv, then Ok(()) to do_it and exit(2) in main
MvWarn(e) ==
    /\ had_warning' = TRUE
    /\ warnings' = WarnSet(e)
    /\ Exit(2, NoError)

\* the body of mv returns Ok(())
MvOk == Exit(IF had_warning THEN 2 ELSE 0, NoError) /\ UNCHANGED <<had_warning, warnings>>

\* mv up to the answer of the overwrite policy: the source is resolved, the
\* destination completed, and is_okay_to_write_remote looks for a file of the
\* destination's name, taking every error of that request as "no such file"
Mv ==
    /\ pc = "mv_cmd"
    /\ \E netSub \in NetSubChoices, netList \in BOOLEAN, netDst \in BOOLEAN :
          LET src_rpat == command.srcs[1]
              r == fetch_one_matching_filename(submission_uris, submissions, credentials,
                                               remote, src_rpat, netSub, netList)
              src == r.files[1]
              message == FileMetaChange(src, command.dst)
              to == CompletedDst(src, message)
              e == fetch_exact_file_name(r.cache, submissions, credentials, remote,
                                         to.hw, to.name, TRUE, netDst)
              shown == DisplayHwQual(to)
          IN  /\ srcs' = command.srcs
              /\ IF r.err.kind # "none"
                 THEN /\ MvWarn(r.err)
                      /\ submission_uris' = r.cache
                      /\ ioLog' = ioLog \o r.log \o Refused(r.err)
                      /\ UNCHANGED <<src_metas, dst, policy, file_dst>>
                 ELSE /\ src_metas' = r.files
                      /\ dst' = to
                      /\ IF message.hw = NoHw /\ message.name = NoText
                         THEN /\ MvOk
                              /\ submission_uris' = r.cache
                              /\ ioLog' = ioLog \o r.log
                              /\ UNCHANGED <<policy, file_dst>>
                         ELSE /\ policy' = overwrite
                              /\ submission_uris' = e.cache
                              /\ file_dst' = shown
                              /\ IF e.err.kind # "none"
                                 THEN /\ pc' = "mv_patch"
                                      /\ ioLog' = ioLog \o r.log \o e.log \o
                                                  Refused(e.err)
                                      /\ UNCHANGED <<exit, error, had_warning, warnings>>
                                 ELSE IF overwrite = "Ask"
                                 THEN /\ pc' = "mv_prompt"
                                      /\ ioLog' = ioLog \o r.log \o e.log \o
                                                  <<Ev("prompt", 0, shown)>>
                                      /\ UNCHANGED <<exit, error, had_warning, warnings>>
                                 ELSE IF confirm_overwrite(overwrite, "?").result = "true"
                                 THEN /\ pc' = "mv_patch"
                                      /\ ioLog' = ioLog \o r.log \o e.log \o
                                                  <<Ev("approve", 0, shown)>>
                                      /\ UNCHANGED <<exit, error, had_warning, warnings>>
                                 ELSE /\ MvWarn(ErrText("DestinationFileExists", shown))
                                      /\ ioLog' = ioLog \o r.log \o e.log
    /\ UNCHANGED <<env, overwrite, command, mode, si, upname, reprompts, fs, remote>>

\* an answer to the prompt of mv
MvPrompt ==
    /\ pc = "mv_prompt"
    /\ \E answer \in Answers :
          LET r == confirm_overwrite(policy, answer) IN
          /\ answer = "?" => reprompts < MaxReprompts
          /\ policy' = r.policy
          /\ reprompts' = IF r.result = "again" THEN reprompts + 1 ELSE reprompts
          /\ CASE r.result = "true" ->
                    /\ pc' = "mv_patch"
                    /\ ioLog' = ioLog \o <<Ev("read", 0, <<answer>>),
                                           Ev("approve", 0, file_dst)>>
                    /\ UNCHANGED <<exit, error, had_warning, warnings>>
               [] r.result = "false" ->
                    /\ MvOk
                    /\ ioLog' = ioLog \o <<Ev("read", 0, <<answer>>),
                                           Ev("skip", 0, file_dst)>>
               [] r.result = "again" ->
                    /\ ioLog' = ioLog \o <<Ev("read", 0, <<answer>>),
                                           Ev("prompt", 0, file_dst)>>
                    /\ UNCHANGED <<pc, exit, error, had_warning, warnings>>
               [] r.result = "exit0" ->
                    /\ Exit(0, NoError)
                    /\ ioLog' = Append(ioLog, Ev("read", 0, <<answer>>))
                    /\ UNCHANGED <<had_warning, warnings>>
               [] r.result = "exit1" ->
                    /\ Exit(1, NoError)
                    /\ ioLog' = Append(ioLog, Ev("read", 0, <<answer>>))
                    /\ UNCHANGED <<had_warning, warnings>>
    /\ UNCHANGED <<env, overwrite, command, mode, srcs, dst, loop, upname, fs, remote,
                   submission_uris>>

\* the PATCH of mv: the message with overwrite set, sent to the URI of the
\* source file; the server refuses a homework the user does not have
MvPatch ==
    /\ pc = "mv_patch"
    /\ \E netPatch \in BOOLEAN :
          LET message == FileMetaChange(src_metas[1], command.dst) IN
          /\ IF netPatch /\ dst.hw \in DOMAIN remote
             THEN /\ MvOk
                  /\ remote' = ServerPatch(remote, src_metas[1], dst)
                  /\ ioLog' = Append(ioLog, Ev("PATCH", message.hw, message.name))
             ELSE /\ MvWarn(Err("ServerError"))
                  /\ ioLog' = ioLog \o <<Ev("PATCH", message.hw, message.name)>> \o
                              Refused(Err("ServerError"))
                  /\ UNCHANGED remote
    /\ UNCHANGED <<env, overwrite, command, mode, srcs, dst, policy, loop, upname,
                   reprompts, fs, submission_uris>>

MvNext ==
    \/ MvProcess
    \/ Mv
    \/ MvPrompt
    \/ MvPatch

SpecMv == MvInit /\ [][MvNext]_vars

(***************************************************************************)
(* cat, rm and ls: the processing of their arguments (with that of cp) and *)
(* the commands themselves.                                                *)
(***************************************************************************)
n_cat == <<"c", "a", "t">>
n_rm == <<"r", "m">>

\* the loop over SPEC of GscClientApp::process for cat and rm: the parsed
\* patterns, or the error of the first token that does not parse or needs
\* the -a flag
RECURSIVE ProcessSpecs(_, _, _, _)
ProcessSpecs(tokens, all, name, acc) ==
    IF tokens = <<>> THEN [err |-> NoError, srcs |-> acc]
    ELSE LET rpat == parse_hw_opt_file(Head(tokens)) IN
         IF ~rpat.ok THEN [err |-> rpat.err, srcs |-> <<>>]
         ELSE IF RpatIsWholeHw(rpat.arg) /\ ~all
         THEN [err |-> ErrText("CommandRequiresFlag", name), srcs |-> <<>>]
         ELSE ProcessSpecs(Tail(tokens), all, name, Append(acc, rpat.arg))

\* the loop over SPEC of GscClientApp::process for ls
RECURSIVE ProcessLsSpecs(_, _)
ProcessLsSpecs(tokens, acc) ==
    IF tokens = <<>> THEN [err |-> NoError, srcs |-> acc]
    ELSE LET rpat == parse_hw_opt_file(Head(tokens)) IN
         IF ~rpat.ok THEN [err |-> rpat.err, srcs |-> <<>>]
         ELSE ProcessLsSpecs(Tail(tokens), Append(acc, rpat.arg))

\* process_common: the JSON output is on with --json and without --human
json_output(args) == args.json /\ ~args.human

\* FilePurpose::is_line_numbered
is_line_numbered(purpose) == purpose # "Resource" /\ purpose # "Log"

MaxSpecs == 2

SpecTokens == {t_hw1, t_hw1_all, t_hw1_a, t_hw1_star, t_hw2_all, t_a_c}

SpecLists == UNION {[1..n -> SpecTokens] : n \in 1..MaxSpecs}

\* gsc cat, gsc cp, gsc rm or gsc ls with its arguments and flags
CliInit ==
    /\ pc = "args"
    /\ argv \in [sub : {"cat", "cp", "rm", "ls"}, srcs : SpecLists, dst : {t_hw1_all},
                 all : BOOLEAN, ow : {"ASK"}, json : BOOLEAN, human : BOOLEAN]
    /\ argv.sub # "ls" => ~argv.json /\ ~argv.human
    /\ argv.sub = "ls" => ~argv.all
    /\ overwrite = "Ask"
    /\ command = [srcs |-> <<>>, dst |-> Local(NoText)]
    /\ mode = "none"
    /\ srcs = <<>>
    /\ dst = Local(NoText)
    /\ policy = "Ask"
    /\ si = 0
    /\ src_metas = <<>>
    /\ file_dst = NoText
    /\ upname = NoText
    /\ reprompts = 0
    /\ fs = FsAbsent
    /\ remote = (1 :> <<f_a, f_l, f_b>>)
    /\ submissions = [u \in {"u"} |-> <<1>>]
    /\ credentials = [some |-> TRUE, username |-> "u"]
    /\ submission_uris = <<>>
    /\ had_warning = FALSE
    /\ warnings = <<>>
    /\ ioLog = <<>>
    /\ error = NoError
    /\ exit = -1

\* the end of GscClientApp::process for a command that takes patterns
Processed(r, next, output) ==
    /\ IF r.err.kind # "none"
       THEN Fatal(r.err) /\ UNCHANGED <<command, mode>>
       ELSE /\ command' = [srcs |-> r.srcs, dst |-> Local(NoText)]
            /\ pc' = next
            /\ si' = 1
            /\ mode' = output
            /\ UNCHANGED <<exit, error, had_warning, warnings, src_metas, file_dst>>
    /\ UNCHANGED <<env, overwrite, srcs, dst, policy, upname, reprompts, fs, remote,
                   submission_uris, ioLog>>

\* GscClientApp::process, the cat subcommand
ProcessCat ==
    /\ pc = "args" /\ argv.sub = "cat"
    /\ Processed(ProcessSpecs(argv.srcs, argv.all, n_cat, <<>>), "cat", "human")

\* GscClientApp::process, the rm subcommand
ProcessRm ==
    /\ pc = "args" /\ argv.sub = "rm"
    /\ Processed(ProcessSpecs(argv.srcs, argv.all, n_rm, <<>>), "rm", "human")

\* GscClientApp::process, the ls subcommand
ProcessLs ==
    /\ pc = "args" /\ argv.sub = "ls"
    /\ Processed(ProcessLsSpecs(argv.srcs, <<>>), "ls",
                 IF json_output(argv) THEN "json" ELSE "human")

\* GscClientApp::process, the cp subcommand
ProcessCp == argv.sub = "cp" /\ Process

\* the next iteration of the loop over the patterns of cat, rm or ls, the
\* command returning Ok(()) after the last
NextRpat(w, ws) ==
    /\ had_warning' = w
    /\ warnings' = ws
    /\ si' = si + 1
    /\ IF si + 1 > Len(command.srcs)
       THEN Exit(IF w THEN 2 ELSE 0, NoError)
       ELSE UNCHANGED <<pc, exit, error>>

\* the requests op for the files one after the other, the first failed coming
\* last when failed is not 0
Requests(op, hw, files, failed) ==
    [i \in 1..(IF failed = 0 THEN Len(files) ELSE failed) |-> Ev(op, hw, files[i].name)]
    \o (IF failed = 0 THEN <<>> ELSE Refused(Err("ServerError")))

\* one pattern of cat: the listing, then a GET for every file to print
Cat ==
    /\ pc = "cat"
    /\ \E netSub \in NetSubChoices, netList \in BOOLEAN :
          LET rpat == command.srcs[si]
              r == fetch_nonempty_matching_file_list(submission_uris, submissions,
                       credentials, remote, rpat, netSub, netList)
              files == IF RpatIsWholeHw(rpat)
                       THEN SelectSeq(r.files, LAMBDA f : is_line_numbered(f.purpose))
                       ELSE r.files
          IN  /\ submission_uris' = r.cache
              /\ IF r.err.kind # "none"
                 THEN /\ NextRpat(TRUE, WarnSet(r.err))
                      /\ ioLog' = ioLog \o r.log \o Refused(r.err)
                 ELSE \E failed \in 0..Len(files) :
                      /\ ioLog' = ioLog \o r.log \o Requests("GET file", rpat.hw, files, failed)
                      /\ IF failed = 0 THEN NextRpat(had_warning, warnings)
                         ELSE NextRpat(TRUE, WarnSet(Err("ServerError")))
    /\ UNCHANGED <<env, overwrite, command, mode, srcs, dst, policy, src_metas, file_dst,
                   upname, reprompts, fs, remote>>

\* one pattern of rm: the listing, then a DELETE for every matching file
Rm ==
    /\ pc = "rm"
    /\ \E netSub \in NetSubChoices, netList \in BOOLEAN :
          LET rpat == command.srcs[si]
              r == fetch_nonempty_matching_file_list(submission_uris, submissions,
                       credentials, remote, rpat, netSub, netList)
          IN  /\ submission_uris' = r.cache
              /\ IF r.err.kind # "none"
                 THEN /\ NextRpat(TRUE, WarnSet(r.err))
                      /\ ioLog' = ioLog \o r.log \o Refused(r.err)
                      /\ UNCHANGED remote
                 ELSE \E failed \in 0..Len(r.files) :
                      LET gone == {r.files[i].name :
                                      i \in 1..(IF failed = 0 THEN Len(r.files)
                                                ELSE failed - 1)}
                      IN  /\ ioLog' = ioLog \o r.log \o
                                      Requests("DELETE", rpat.hw, r.files, failed)
                          /\ remote' = [remote EXCEPT ![rpat.hw] =
                                           SelectSeq(@, LAMBDA f : f.name \notin gone)]
                          /\ IF failed = 0 THEN NextRpat(had_warning, warnings)
                             ELSE NextRpat(TRUE, WarnSet(Err("ServerError")))
    /\ UNCHANGED <<env, overwrite, command, mode, srcs, dst, policy, src_metas, file_dst,
                   upname, reprompts, fs>>

\* one pattern of ls without JSON output: the listing is printed as a table
Ls ==
    /\ pc = "ls" /\ mode = "human"
    /\ \E netSub \in NetSubChoices, netList \in BOOLEAN :
          LET r == fetch_nonempty_matching_file_list(submission_uris, submissions,
                       credentials, remote, command.srcs[si], netSub, netList)
          IN  /\ submission_uris' = r.cache
              /\ ioLog' = ioLog \o r.log \o Refused(r.err)
              /\ IF r.err.kind # "none"
                 THEN NextRpat(TRUE, WarnSet(r.err))
                 ELSE NextRpat(had_warning, warnings)
    /\ UNCHANGED <<env, overwrite, command, mode, srcs, dst, policy, src_metas, file_dst,
                   upname, reprompts, fs, remote>>

\* one pattern of json_ls: the assertion, then the raw listing of the homework
json_ls ==
    /\ pc = "ls" /\ mode = "json"
    /\ \E netSub \in NetSubChoices, netList \in BOOLEAN :
          LET rpat == command.srcs[si]
              uri == get_uri_for_submission_files(submission_uris, submissions,
                         credentials, rpat.hw, netSub)
          IN  IF rpat.name # <<>>
              THEN /\ Fatal(Panic(<<"n", "o", "t", " ", "h", "a", "n", "d", "l", "e", "d">>))
                   /\ UNCHANGED <<si, submission_uris, ioLog>>
              ELSE /\ submission_uris' = uri.cache
                   /\ IF uri.err.kind # "none"
                      THEN /\ Exit(1, uri.err)
                           /\ ioLog' = ioLog \o uri.log \o Refused(uri.err)
                           /\ UNCHANGED <<si, had_warning, warnings>>
                      ELSE IF ~netList
                      THEN /\ Exit(1, Err("ServerError"))
                           /\ ioLog' = ioLog \o uri.log \o
                                       <<Ev("GET files", rpat.hw, NoText)>> \o
                                       Refused(Err("ServerError"))
                           /\ UNCHANGED <<si, had_warning, warnings>>
                      ELSE /\ NextRpat(had_warning, warnings)
                           /\ ioLog' = ioLog \o uri.log \o
                                       <<Ev("GET files", rpat.hw, NoText)>>
    /\ UNCHANGED <<env, overwrite, command, mode, srcs, dst, policy, src_metas, file_dst,
                   upname, reprompts, fs, remote>>

CliNext ==
    \/ ProcessCat
    \/ ProcessRm
    \/ ProcessLs
    \/ ProcessCp
    \/ Cat
    \/ Rm
    \/ Ls
    \/ json_ls

SpecCli == CliInit /\ [][CliNext]_vars

(***************************************************************************)
(* auth: the prompt for the API key, its local check, the request that     *)
(* carries it, and the saving of the credentials.                          *)
(***************************************************************************)
KEY_LEN == 40

HexDigits == Digits \cup {"a", "b", "c", "d", "e", "f", "A", "B", "C", "D", "E", "F"}

AsciiWhitespace == {" ", "\t", "\n", "\r", "\f"}

\* char::to_ascii_lowercase, on hexadecimal digits
to_ascii_lowercase(c) ==
    CASE c = "A" -> "a" [] c = "B" -> "b" [] c = "C" -> "c"
      [] c = "D" -> "d" [] c = "E" -> "e" [] c = "F" -> "f"
      [] OTHER -> c

\* str::trim_matches of ASCII whitespace
RECURSIVE trim_matches(_)
trim_matches(s) ==
    IF s = <<>> THEN s
    ELSE IF s[1] \in AsciiWhitespace THEN trim_matches(Tail(s))
    ELSE IF s[Len(s)] \in AsciiWhitespace THEN trim_matches(SubSeq(s, 1, Len(s) - 1))
    ELSE s

\* check_api_key: the key trimmed and in lower case, or NotAnApiKey
check_api_key(api_key) ==
    LET key == trim_matches(api_key) IN
    IF \/ api_key = <<>>
       \/ Len(key) = 0
       \/ Len(key) # KEY_LEN
       \/ \E i \in 1..Len(key) : key[i] \notin HexDigits
    THEN [ok |-> FALSE, key |-> NoText, err |-> Err("NotAnApiKey")]
    ELSE [ok |-> TRUE, key |-> [i \in 1..Len(key) |-> to_ascii_lowercase(key[i])],
          err |-> NoError]

\* a response that is taken as a success whatever its status
handle_response_lenient(response) == NoError

\* handle_response: Ok for a success status, else the JsonStatus of the body
\* as a ServerError, or the error of a body that is no JsonStatus
handle_response(response) ==
    IF response.http \in 200..299 THEN NoError
    ELSE IF ~response.json THEN Err("Reqwest")
    ELSE [Err("ServerError") EXCEPT !.hw = response.status]

\* str::to_lowercase of the user names given
to_lowercase(user) == IF user = "U" THEN "u" ELSE user

\* what can come back: a success, the server's JsonStatus 401 or 403 under
\* the same HTTP status, and a gateway's error whose body is no JsonStatus
Responses ==
    {[http |-> 200, json |-> TRUE, status |-> 200],
     [http |-> 401, json |-> TRUE, status |-> 401],
     [http |-> 403, json |-> TRUE, status |-> 403],
     [http |-> 502, json |-> FALSE, status |-> 0]}

GoodKey == [i \in 1..KEY_LEN |-> IF i % 2 = 0 THEN "a" ELSE "7"]

UpperKey == [i \in 1..KEY_LEN |-> IF i % 2 = 0 THEN "A" ELSE "7"]

OldKey == [i \in 1..KEY_LEN |-> "0"]

\* what the user can enter at the prompt
KeyInputs ==
    {GoodKey, UpperKey, <<" ">> \o UpperKey \o <<"\n">>, OldKey,
     NoText, <<" ", "\t">>, <<"a", "b", "c">>, GoodKey \o <<"a">>,
     [GoodKey EXCEPT ![KEY_LEN] = "g"], [GoodKey EXCEPT ![2] = " "]}

NoCredentials == [some |-> FALSE, username |-> "", key |-> NoText]

Credentials(username, key) == [some |-> TRUE, username |-> username, key |-> key]

\* gsc auth USER, with or without stored credentials
AuthInit ==
    /\ pc = "args"
    /\ argv \in [sub : {"auth"}, user : {"u", "U", "v"}, srcs : {<<>>}, dst : {NoText},
                 all : {FALSE}, ow : {"ASK"}]
    /\ overwrite = "Ask"
    /\ command = [srcs |-> <<>>, dst |-> Local(NoText)]
    /\ mode = "none"
    /\ srcs = <<>>
    /\ dst = Local(NoText)
    /\ policy = "Ask"
    /\ si = 0
    /\ src_metas = <<>>
    /\ file_dst = NoText
    /\ upname = NoText
    /\ reprompts = 0
    /\ fs = FsAbsent
    /\ remote = (1 :> <<>>)
    /\ submissions = [u \in {"u"} |-> <<1>>]
    /\ credentials \in {NoCredentials, Credentials("u", OldKey)}
    /\ submission_uris = <<>>
    /\ had_warning = FALSE
    /\ warnings = <<>>
    /\ ioLog = <<>>
    /\ error = NoError
    /\ exit = -1

\* GscClientApp::process, the auth subcommand
ProcessAuth ==
    /\ pc = "args" /\ argv.sub = "auth"
    /\ command' = [srcs |-> <<>>, dst |-> Local(NoText), user |-> argv.user]
    /\ pc' = "auth"
    /\ UNCHANGED <<env, overwrite, mode, srcs, dst, policy, loop, upname, reprompts, fs,
                   remote, submission_uris, had_warning, warnings, ioLog, error, exit>>

\* one iteration of the loop of auth: the prompt, the check of the key, the
\* request with the key as its cookie, and what follows from the response
Auth ==
    /\ pc = "auth"
    /\ \E tty \in BOOLEAN, entered \in KeyInputs, sent \in BOOLEAN,
          response \in Responses, writable \in BOOLEAN :
          LET username == to_lowercase(command.user)
              api_key == check_api_key(entered)
              creds == Credentials(username, api_key.key)
              prompt == Ev("prompt", 0, <<username>>)
              get == Ev("GET user", 0, <<username>> \o api_key.key)
              answer == Ev("response", response.http, NoText)
              e == handle_response(response)
          IN  IF ~tty
              THEN /\ Fatal(Err("Io"))
                   /\ ioLog' = Append(ioLog, prompt)
                   /\ UNCHANGED <<credentials, reprompts>>
              ELSE IF ~api_key.ok
              THEN /\ Fatal(api_key.err)
                   /\ ioLog' = ioLog \o <<prompt, Ev("read", 0, entered)>>
                   /\ UNCHANGED <<credentials, reprompts>>
              ELSE IF ~sent
              THEN /\ Fatal(Err("Reqwest"))
                   /\ ioLog' = ioLog \o <<prompt, Ev("read", 0, entered), get>>
                   /\ UNCHANGED <<credentials, reprompts>>
              ELSE IF e.kind = "none"
              THEN /\ ioLog' = ioLog \o <<prompt, Ev("read", 0, entered), get, answer>>
                   /\ UNCHANGED reprompts
                   /\ IF writable
                      THEN /\ credentials' = creds
                           /\ Exit(0, NoError)
                           /\ UNCHANGED <<had_warning, warnings, loop>>
                      ELSE Fatal(Err("Io")) /\ UNCHANGED credentials
              ELSE IF e.kind = "ServerError" /\ e.hw = 401
              THEN /\ reprompts < MaxReprompts
                   /\ reprompts' = reprompts + 1
                   /\ ioLog' = ioLog \o <<prompt, Ev("read", 0, entered), get, answer>>
                   /\ UNCHANGED <<pc, exit, error, credentials, had_warning, warnings, loop>>
              ELSE /\ Fatal(e)
                   /\ ioLog' = ioLog \o <<prompt, Ev("read", 0, entered), get, answer>>
                   /\ UNCHANGED <<credentials, reprompts>>
    /\ UNCHANGED <<argv, submissions, overwrite, command, mode, srcs, dst, policy, upname,
                   fs, remote, submission_uris>>

AuthNext ==
    \/ ProcessAuth
    \/ Auth

SpecAuth == AuthInit /\ [][AuthNext]_vars

(***************************************************************************)
(* Properties.                                                             *)
(***************************************************************************)
\* an event of this kind has happened
Happened(op) == \E i \in 1..Len(ioLog) : ioLog[i].op = op

\* cp has been called and has gone past its dispatch
CpCalled == pc \notin {"args", "cmd"} /\ command.srcs # <<>>

HasSource(tag) == \E i \in 1..Len(command.srcs) : command.srcs[i].tag = tag

\* the text is hw followed by digits only
LooksLikeBareHw(text) ==
    /\ Len(text) >= 3
    /\ text[1] = "h"
    /\ text[2] = "w"
    /\ \A i \in 3..Len(text) : text[i] \in Digits

\* C1: cp to a Local destination with a Local source anywhere among the
\* sources fails with CannotCopyLocalToLocal (the hint variant when the
\* destination text is hw<digits>) and has done no I/O of any kind: no probe
\* of the destination, no request, no write.
C1_LocalToLocal ==
    (CpCalled /\ command.dst.tag = "Local" /\ HasSource("Local")) =>
        /\ pc = "exit"
        /\ exit = 1
        /\ error.kind = IF LooksLikeBareHw(command.dst.path)
                        THEN "CannotCopyLocalToLocalExtra"
                        ELSE "CannotCopyLocalToLocal"
        /\ ioLog = <<>>
        /\ fs \in FsStates

\* a Local source after a Remote one was rejected
C1_Witness ==
    /\ pc = "exit"
    /\ error.kind = "CannotCopyLocalToLocal"
    /\ Len(command.srcs) = 2
    /\ command.srcs[1].tag = "Remote"
    /\ command.srcs[2].tag = "Local"

\* C2: cp to a Remote destination with a Remote source anywhere among the
\* sources fails with CannotCopyRemoteToRemote before anything is uploaded or
\* listed, for a whole-homework destination and for a named one.
C2_RemoteToRemote ==
    (CpCalled /\ command.dst.tag = "Remote" /\ HasSource("Remote")) =>
        /\ pc = "exit"
        /\ exit = 1
        /\ error.kind = "CannotCopyRemoteToRemote"
        /\ ~Happened("PUT")
        /\ ~Happened("open source")
        /\ ~Happened("GET files")
        /\ ~Happened("GET submissions")
        /\ remote[1] \in Listings

\* a Remote source listed after a Local one was rejected, the destination
\* being a whole homework
C2_Witness ==
    /\ pc = "exit"
    /\ error.kind = "CannotCopyRemoteToRemote"
    /\ Len(command.srcs) = 2
    /\ command.srcs[1].tag = "Local"
    /\ command.srcs[2].tag = "Remote"
    /\ RpatIsWholeHw(command.dst)

\* the destination names an existing plain file
DstIsPlainFile ==
    /\ command.dst.tag = "Local"
    /\ ~EndsInSeparator(command.dst.path)
    /\ FsIsFile(fs, Components(command.dst.path))

\* C3: cp of one whole-homework source onto an existing plain file fails with
\* SourceHwToDestinationFile naming the homework; nothing was listed, nobody
\* was prompted, and the file was neither opened nor changed.
C3_HwOntoFile ==
    (/\ CpCalled
     /\ DstIsPlainFile
     /\ Len(command.srcs) = 1
     /\ command.srcs[1].tag = "Remote"
     /\ command.srcs[1].name = <<>>) =>
        /\ pc = "exit"
        /\ exit = 1
        /\ error.kind = "SourceHwToDestinationFile"
        /\ error.hw = command.srcs[1].hw
        /\ ~Happened("GET files")
        /\ ~Happened("GET submissions")
        /\ ~Happened("prompt")
        /\ ~Happened("open")
        /\ fs[Components(command.dst.path)] = FileEntry(OldData)

\* a whole homework was refused for a plain file
C3_Witness ==
    /\ pc = "exit"
    /\ error.kind = "SourceHwToDestinationFile"
    /\ DstIsPlainFile

\* the destination was probed and did not exist
DstWasAbsent == CpCalled /\ mode \in {"NewFile", "NewDir"}

\* one of the two signals for a directory: a trailing separator in the
\* destination text, or a whole-homework source
DirectorySignal ==
    \/ EndsInSeparator(command.dst.path)
    \/ \E i \in 1..Len(command.srcs) : command.srcs[i].name = <<>>

\* C4: for a Local destination that does not exist, a trailing separator or
\* a whole-homework source makes cp create the directory and go on as for an
\* existing directory, where no failure of a pattern is fatal; without either
\* signal, and with one source, the destination is not made a directory.
C4_DirectorySignals ==
    DstWasAbsent =>
        /\ DirectorySignal =>
              /\ FsIsDir(fs, Components(command.dst.path))
              /\ pc = "exit" => error.kind = "none"
        /\ (~DirectorySignal /\ Len(command.srcs) = 1) =>
              ~FsIsDir(fs, Components(command.dst.path))

\* C5 as stated: two Local sources and a Local destination that does not
\* exist and has no trailing separator end in MultipleSourcesOneDestination.
C5_TwoLocalSources ==
    (/\ CpCalled
     /\ command.dst.tag = "Local"
     /\ ~EndsInSeparator(command.dst.path)
     /\ ~FsHas(fs, Components(command.dst.path))
     /\ Len(command.srcs) = 2
     /\ command.srcs[1].tag = "Local"
     /\ command.srcs[2].tag = "Local") =>
        /\ pc = "exit"
        /\ error.kind = "MultipleSourcesOneDestination"

\* C5, amended: two Remote sources and a Local destination that does not
\* exist and has no trailing separator end in MultipleSourcesOneDestination,
\* after the probe of the destination and before any request or write.
C5_TwoRemoteSources ==
    (/\ CpCalled
     /\ command.dst.tag = "Local"
     /\ ~EndsInSeparator(command.dst.path)
     /\ ~FsHas(fs, Components(command.dst.path))
     /\ Len(command.srcs) = 2
     /\ command.srcs[1].tag = "Remote"
     /\ command.srcs[2].tag = "Remote") =>
        /\ pc = "exit"
        /\ exit = 1
        /\ error.kind = "MultipleSourcesOneDestination"
        /\ ioLog = <<Ev("metadata", 0, command.dst.path)>>

\* two patterns were refused for a destination that does not exist
C5_Witness ==
    /\ pc = "exit"
    /\ error.kind = "MultipleSourcesOneDestination"
    /\ mode = "NewFile"
    /\ Len(command.srcs) = 2
    /\ ~EndsInSeparator(command.dst.path)

\* an upload to a destination that names a file
UpNamed ==
    /\ CpCalled
    /\ command.dst.tag = "Remote"
    /\ command.dst.name # <<>>
    /\ ~HasSource("Remote")

\* the positions of the server's files that the destination pattern matches
DstMatches ==
    {i \in 1..Len(remote[command.dst.hw]) :
        GlobIsMatch(command.dst.name, remote[command.dst.hw][i].name)}

\* the server holds the file with the contents of the local source
ServerHolds(name, src) ==
    \E i \in 1..Len(remote[command.dst.hw]) :
        /\ remote[command.dst.hw][i].name = name
        /\ remote[command.dst.hw][i].data = LocalData(src)

\* C6: an upload to a destination that names a file needs exactly one source
\* (MultipleSourcesOneDestination and no request otherwise); with no matching
\* remote file it uploads under the destination's own text, with one under
\* that file's name, and with several it fails with
\* DestinationPatternIsMultiple, which lists them, and uploads nothing.
C6_NamedUpload ==
    UpNamed =>
        /\ Len(command.srcs) # 1 =>
              /\ pc = "exit"
              /\ error.kind = "MultipleSourcesOneDestination"
              /\ ioLog = <<>>
        /\ Len(command.srcs) = 1 =>
              /\ pc = "up_one" =>
                    /\ Cardinality(DstMatches) <= 1
                    /\ DstMatches = {} => upname = command.dst.name
                    /\ \A i \in DstMatches : upname = remote[command.dst.hw][i].name
              /\ \A i \in 1..Len(ioLog) :
                    ioLog[i].op = "PUT" =>
                        ioLog[i].text = upname /\ ioLog[i].hw = command.dst.hw
              /\ Cardinality(DstMatches) > 1 =>
                    /\ ~Happened("PUT")
                    /\ (pc = "exit" /\ Happened("GET files") /\ error.kind # "ServerError") =>
                          /\ error.kind = "DestinationPatternIsMultiple"
                          /\ Len(error.files) = Cardinality(DstMatches)
                          /\ \A i \in DstMatches :
                                \E j \in 1..Len(error.files) :
                                    error.files[j] = remote[command.dst.hw][i].name
              /\ (pc = "exit" /\ error.kind = "none") =>
                    /\ Happened("PUT")
                    /\ ServerHolds(upname, command.srcs[1].path)

\* a file was uploaded over the one remote file the pattern matched
C6_Witness ==
    /\ UpNamed
    /\ pc = "exit"
    /\ exit = 0
    /\ upname # command.dst.name
    /\ ServerHolds(upname, command.srcs[1].path)

\* C7: an upload of several sources to a whole homework never fails as a
\* whole: whatever goes wrong with one source is a warning, every source is
\* tried, and cp returns success, with the warning flag set when one failed.
C7_BestEffortUpload ==
    (CpCalled /\ mode = "UpHw" /\ pc = "exit") =>
        /\ error.kind = "none"
        /\ si = Len(srcs) + 1
        /\ exit = IF warnings # <<>> THEN 2 ELSE 0

\* the process was ended by the prompt: the last thing it did was read a line
ExitedFromPrompt ==
    pc = "exit" /\ ioLog # <<>> /\ ioLog[Len(ioLog)].op = "read"

HasWarning(kind) == \E i \in 1..Len(warnings) : warnings[i].kind = kind

\* C8: with an existing directory as destination no failure of a pattern is
\* fatal: it is printed as a warning and sets the flag, the patterns are
\* taken one by one in order and none is left out, and cp returns success
\* (exit status 2 when there was a warning) unless the user ends the process
\* at a prompt.
C8_DirPatternsIndependent ==
    /\ []((CpCalled /\ mode = "Dir") =>
            /\ error.kind = "none"
            /\ had_warning <=> warnings # <<>>
            /\ \A i \in 1..Len(srcs) :
                  (i < si /\ srcs[i].hw \notin DOMAIN remote) =>
                      HasWarning("UnknownHomework") \/ HasWarning("ServerError")
            /\ (pc = "exit" /\ ~ExitedFromPrompt) =>
                  /\ si = Len(srcs) + 1
                  /\ exit = IF warnings # <<>> THEN 2 ELSE 0)
    /\ [][(mode = "Dir" /\ pc # "cmd") =>
            /\ si' # si => (si' = si + 1 /\ (si' <= Len(srcs) => pc' = "dn_pattern"))
            /\ warnings' # warnings => (had_warning' /\ si' = si + 1)]_vars

\* the first pattern failed and a file of the second was downloaded
C8_Witness ==
    /\ mode = "Dir"
    /\ pc = "exit"
    /\ exit = 2
    /\ Len(srcs) = 2
    /\ srcs[1].hw \notin DOMAIN remote
    /\ HasWarning("UnknownHomework")
    /\ ioLog[Len(ioLog)].op = "GET file"
    /\ \E k \in DOMAIN fs : fs[k].data.origin = "remote"

\* the directory a purpose goes to, as components under the destination
ExpectedDir(purpose) ==
    CASE purpose = "Source" -> <<<<"s", "r", "c">>>>
      [] purpose = "Test" -> <<<<"t", "e", "s", "t">>>>
      [] purpose = "Resource" -> <<<<"R", "e", "s", "o", "u", "r", "c", "e", "s">>>>
      [] OTHER -> <<>>

\* where a file of the pattern at position i is expected
ExpectedPath(i, meta) ==
    Components(command.dst.path)
        \o (IF srcs[i].name = <<>> THEN ExpectedDir(meta.purpose) ELSE <<>>)
        \o <<meta.name>>

\* the file of the server is among those the pattern at position i copies
Copies(i, meta) ==
    IF srcs[i].name = <<>> THEN meta.purpose # "Log"
    ELSE GlobIsMatch(srcs[i].name, meta.name)

\* C9: a download into a directory writes a file of a whole homework to
\* <dst>/<directory of its purpose>/<name>, that path existing by then,
\* and a file of a pattern to <dst>/<name>; a Log file of a whole homework is
\* never written; a prompt is only ever about a path that exists, so a new
\* directory sees none; and a run that ends with status 0 and skipped nothing
\* has written every file it was to copy, with the server's contents.
C9_DownloadFanOut ==
    (CpCalled /\ mode \in {"Dir", "NewDir"}) =>
        /\ pc = "download" =>
              /\ Components(file_dst) = ExpectedPath(si, Head(src_metas))
              /\ FsHas(fs, FsParent(Components(file_dst)))
              /\ srcs[si].name = <<>> => Head(src_metas).purpose # "Log"
        /\ pc = "prompt" => PathExists(fs, file_dst)
        /\ mode = "NewDir" => ~Happened("prompt")
        /\ (\A i \in 1..Len(srcs) : srcs[i].name = <<>>) =>
              \A k \in DOMAIN fs : fs[k].data # f_l.data
        /\ (pc = "exit" /\ exit = 0 /\ ~Happened("skip") /\ ~ExitedFromPrompt) =>
              \A i \in 1..Len(srcs) :
                  \A j \in 1..Len(remote[srcs[i].hw]) :
                      LET meta == remote[srcs[i].hw][j] IN
                      Copies(i, meta) =>
                          /\ ExpectedPath(i, meta) \in DOMAIN fs
                          /\ fs[ExpectedPath(i, meta)] = FileEntry(meta.data)

\* a whole homework was downloaded into a directory that did not exist
C9_Witness ==
    /\ mode = "NewDir"
    /\ pc = "exit"
    /\ exit = 0
    /\ <<t_o, n_src, t_a_c>> \in DOMAIN fs
    /\ fs[<<t_o, n_src, t_a_c>>] = FileEntry(f_a.data)
    /\ <<t_o, <<"t", "e", "s", "t">>, t_b_h>> \in DOMAIN fs
    /\ <<t_o, <<"l">>>> \notin DOMAIN fs

\* cp_dn has copied the configured policy
Downloading == CpCalled /\ mode \in {"File", "NewFile", "NewDir", "Dir"}

\* C10: the policy of a download changes only from Ask to Always, and only
\* when the line read at the prompt is "all"; Always and Never stay as they
\* are and never prompt or read; Always never reports DestinationFileExists;
\* Never approves nothing and downloads only to paths that do not exist.
C10_PolicyMachine ==
    /\ [](/\ policy \in OverwritePolicies
          /\ pc = "prompt" => policy = "Ask"
          /\ (Downloading /\ overwrite # "Ask") =>
                /\ policy = overwrite
                /\ ~Happened("prompt")
                /\ ~Happened("read")
          /\ (Downloading /\ overwrite = "Always") =>
                /\ error.kind # "DestinationFileExists"
                /\ ~HasWarning("DestinationFileExists")
          /\ (Downloading /\ overwrite = "Never") =>
                /\ ~Happened("approve")
                /\ pc = "download" => ~PathExists(fs, file_dst)
                /\ (mode = "File" /\ pc = "exit") =>
                      /\ ~Happened("open")
                      /\ Happened("GET files") =>
                            error.kind \in {"DestinationFileExists", "ServerError",
                                            "NoSuchRemoteFile",
                                            "MultipleSourcesOneDestination"})
    /\ [][(pc # "cmd" /\ policy' # policy) =>
            /\ policy = "Ask"
            /\ policy' = "Always"
            /\ pc = "prompt"
            /\ ioLog'[Len(ioLog) + 1] = Ev("read", 0, <<"a">>)]_vars

\* the user answered "all" and the policy became Always
C10_Witness ==
    /\ overwrite = "Ask"
    /\ policy = "Always"
    /\ pc = "download"

\* every warning recorded is a refused overwrite
OnlyRefusals ==
    \A w \in 1..Len(warnings) : warnings[w].kind = "DestinationFileExists"

\* C11: under policy Never a run into an existing directory whose only
\* failures are refused overwrites ends with every file of every pattern in
\* place: the files after a refused one, of the same pattern or homework and
\* of the later patterns, have been downloaded.
C11_NeverKeepsGoing ==
    (CpCalled /\ mode = "Dir" /\ policy = "Never" /\ pc = "exit" /\ OnlyRefusals) =>
        \A i \in 1..Len(srcs) :
            \A j \in 1..Len(remote[srcs[i].hw]) :
                LET meta == remote[srcs[i].hw][j] IN
                Copies(i, meta) => ExpectedPath(i, meta) \in DOMAIN fs

\* the positions of the log where the line read at a prompt is this answer
ReadsOf(answer) == {k \in 1..Len(ioLog) : ioLog[k] = Ev("read", 0, <<answer>>)}

\* every file the patterns copy is in place with the contents of the server
AllCopied ==
    \A i \in 1..Len(srcs) :
        \A j \in 1..Len(remote[srcs[i].hw]) :
            LET meta == remote[srcs[i].hw][j] IN
            Copies(i, meta) =>
                /\ ExpectedPath(i, meta) \in DOMAIN fs
                /\ fs[ExpectedPath(i, meta)].data = meta.data

\* C12: after the answer "all" at one prompt the policy of the batch is
\* Always: nothing later in the run is a prompt, a read of an answer or a
\* skip, in the same pattern or in a later one, every later approval follows
\* the probe of the target at once and every probe leads to the download
\* (which may fail to open the file), and a run into a directory that then ends with status 0
\* having skipped nothing has overwritten every file with the server's copy.
C12_AllIsShared ==
    \A k \in ReadsOf("a") :
        /\ policy = "Always"
        /\ pc # "prompt"
        /\ \A m \in (k + 1)..Len(ioLog) : ioLog[m].op \notin {"prompt", "read", "skip"}
        /\ \A m \in (k + 2)..Len(ioLog) :
              /\ ioLog[m].op = "approve" => ioLog[m - 1].op = "exists"
              /\ (ioLog[m].op = "exists" /\ m = Len(ioLog)) =>
                    (pc = "download" \/ HasWarning("Io") \/ error.kind = "Io")
        /\ (mode = "Dir" /\ pc = "exit" /\ exit = 0 /\ ~Happened("skip")) => AllCopied

\* "all" was answered for o/a.c, then o/b.h of the same pattern and o/src/a.c
\* of the next pattern were overwritten without a prompt
C12_Witness ==
    /\ pc = "exit"
    /\ exit = 0
    /\ Len(srcs) = 2
    /\ Cardinality(ReadsOf("a")) = 1
    /\ Cardinality({k \in 1..Len(ioLog) : ioLog[k].op = "prompt"}) = 1
    /\ Cardinality({k \in 1..Len(ioLog) : ioLog[k].op = "approve"}) = 3
    /\ fs[<<t_o, t_a_c>>].data = f_a.data
    /\ fs[<<t_o, t_b_h>>].data = f_b.data
    /\ fs[<<t_o, n_src, t_a_c>>].data = f_a.data

\* the step reads this answer at the prompt
Reads(answer) ==
    /\ pc = "prompt"
    /\ Len(ioLog') > Len(ioLog)
    /\ ioLog'[Len(ioLog) + 1] = Ev("read", 0, <<answer>>)

\* the path of the file is the text of a skip in the log
Skipped(cs) ==
    \E k \in 1..Len(ioLog) : ioLog[k].op = "skip" /\ Components(ioLog[k].text) = cs

\* C13: the answer "no" at a prompt skips that file and nothing else: the
\* step changes no file, leaves the policy Ask and the warnings as they were
\* and goes on to the next file, the next pattern or the end of cp; a skip
\* is never followed by the opening of a file without a new approval; and a
\* run with a skip, no warning and no error that is not ended at a prompt
\* exits with status 0 with every file that was not skipped downloaded.
C13_NoSkipsOneFile ==
    /\ [][Reads("n") =>
            /\ policy = "Ask" /\ policy' = "Ask"
            /\ fs' = fs
            /\ had_warning' = had_warning
            /\ warnings' = warnings
            /\ error' = NoError
            /\ ioLog' = ioLog \o <<Ev("read", 0, <<"n">>), Ev("skip", 0, file_dst)>>
            /\ IF Len(src_metas) > 1
               THEN pc' = "dn_files" /\ src_metas' = Tail(src_metas) /\ si' = si
               ELSE IF mode = "Dir" /\ si < Len(srcs)
               THEN pc' = "dn_pattern" /\ si' = si + 1
               ELSE pc' = "exit" /\ exit' = IF had_warning THEN 2 ELSE 0]_vars
    /\ [](/\ \A k \in 1..(Len(ioLog) - 1) :
                ioLog[k].op = "skip" => ioLog[k + 1].op \notin {"open", "GET file"}
          /\ (Happened("skip") /\ pc = "exit" /\ ~ExitedFromPrompt
                /\ warnings = <<>> /\ error = NoError) =>
                /\ exit = 0
                /\ ~had_warning
                /\ mode = "Dir" =>
                      \A i \in 1..Len(srcs) :
                          \A j \in 1..Len(remote[srcs[i].hw]) :
                              LET meta == remote[srcs[i].hw][j] IN
                              Copies(i, meta) =>
                                  /\ ExpectedPath(i, meta) \in DOMAIN fs
                                  /\ \/ Skipped(ExpectedPath(i, meta))
                                     \/ fs[ExpectedPath(i, meta)].data = meta.data)

\* a whole homework into a directory that holds one of its files: "no" for
\* that file, which keeps its contents, and the rest is downloaded
C13_Witness ==
    /\ mode = "Dir"
    /\ pc = "exit"
    /\ exit = 0
    /\ policy = "Ask"
    /\ Len(srcs) = 1
    /\ srcs[1].name = <<>>
    /\ ReadsOf("n") # {}
    /\ fs[<<t_o, n_src, t_a_c>>].data = OldData
    /\ <<t_o, <<"t", "e", "s", "t">>, t_b_h>> \in DOMAIN fs
    /\ fs[<<t_o, <<"t", "e", "s", "t">>, t_b_h>>].data = f_b.data

IsApproval(e, cs) == e.op = "approve" /\ Components(e.text) = cs

\* C15: a step that changes a local file that exists, or opens it for
\* writing, is taken right after the policy approved that very path; and an approval is only ever given
\* by the policy Always, configured or taken over from an earlier answer
\* "all", or by the answer "yes" or "all" to the prompt that names the path.
C15_ApprovalBeforeTruncation ==
    /\ [][\A k \in DOMAIN fs :
              (/\ fs[k].kind = "file"
               /\ \/ fs'[k] # fs[k]
                  \/ /\ pc = "download"
                     /\ Components(file_dst) = k
                     /\ Len(ioLog') > Len(ioLog)) =>
                  /\ pc = "download"
                  /\ Components(file_dst) = k
                  /\ ioLog # <<>>
                  /\ IsApproval(ioLog[Len(ioLog)], k)
                  /\ ioLog'[Len(ioLog) + 1] = Ev("open", 0, file_dst)]_vars
    /\ [](\A m \in 1..Len(ioLog) :
              ioLog[m].op = "approve" =>
                  \/ overwrite = "Always"
                  \/ /\ overwrite = "Ask"
                     /\ m > 2
                     /\ ioLog[m - 1] \in {Ev("read", 0, <<"y">>), Ev("read", 0, <<"a">>)}
                     /\ ioLog[m - 2] = Ev("prompt", 0, ioLog[m].text)
                  \/ /\ overwrite = "Ask"
                     /\ \E k \in ReadsOf("a") : k < m)

\* the existing file that is the destination was overwritten after a "yes"
C15_Witness ==
    /\ mode = "File"
    /\ pc = "exit"
    /\ exit = 0
    /\ ReadsOf("y") # {}
    /\ fs[Components(dst.path)].data = f_a.data

\* C16: cp to a Remote destination never consults the overwrite policy:
\* whatever the configured policy, nothing is probed, prompted, read,
\* approved or skipped, no error or warning is DestinationFileExists, and
\* every PUT that succeeds replaces or creates the remote file.
C16_UploadsIgnorePolicy ==
    (CpCalled /\ command.dst.tag = "Remote") =>
        /\ mode \in {"none", "UpHw", "UpOne"}
        /\ \A i \in 1..Len(ioLog) :
              ioLog[i].op \in {"open source", "GET submissions", "GET files", "PUT"}
        /\ error.kind # "DestinationFileExists"
        /\ ~HasWarning("DestinationFileExists")
        /\ (pc = "exit" /\ exit = 0 /\ mode = "UpOne") =>
              ServerHolds(upname, srcs[1].path)
        /\ (pc = "exit" /\ exit = 0 /\ mode = "UpHw") =>
              \A i \in 1..Len(srcs) :
                  ServerHolds(PathFileName(srcs[i].path).name, srcs[i].path)

\* under Never a local file was uploaded over the remote file of its name
C16_Witness ==
    /\ overwrite = "Never"
    /\ mode = "UpHw"
    /\ pc = "exit"
    /\ exit = 0
    /\ Len(remote[1]) = 3
    /\ remote[1][3] = f_b
    /\ ServerHolds(t_a_c, t_a_c)

\* C17: when the process has ended its status is 0, 1 or 2: 0 only when no
\* error was returned and no warning was recorded, 1 when an error was
\* returned, 2 when no error was returned and a warning was recorded, the
\* runs that end inside a prompt included.
C17_ExitStatus ==
    pc = "exit" =>
        /\ exit \in {0, 1, 2}
        /\ exit = 0 => (error.kind = "none" /\ ~had_warning /\ warnings = <<>>)
        /\ error.kind # "none" => exit = 1
        /\ (error.kind = "none" /\ had_warning) => exit = 2

\* the positions of the server's files that the single source pattern matches
SrcMatches ==
    {j \in 1..Len(remote[srcs[1].hw]) :
        GlobIsMatch(srcs[1].name, remote[srcs[1].hw][j].name)}

\* cp_dn has asked for the one file of its single pattern and the listing
\* has been received
ResolvedOne ==
    /\ CpCalled
    /\ mode \in {"File", "NewFile"}
    /\ pc # "dn_one"
    /\ Happened("GET files")
    /\ error.kind # "ServerError"

\* C18: when the single pattern of a download to one file has been resolved
\* against the listing, one matching name gives that file and cp goes on
\* with it, no matching name gives NoSuchRemoteFile for the pattern, and
\* several give MultipleSourcesOneDestination; after either failure nothing
\* was prompted, approved, opened or downloaded and no local file changed.
C18_ExactlyOne ==
    ResolvedOne =>
        /\ Cardinality(SrcMatches) = 1 =>
              /\ error.kind \notin {"NoSuchRemoteFile", "MultipleSourcesOneDestination"}
              /\ pc \in {"prompt", "download"} =>
                    /\ Len(src_metas) = 1
                    /\ \A j \in SrcMatches : src_metas[1] = remote[srcs[1].hw][j]
        /\ Cardinality(SrcMatches) = 0 =>
              /\ pc = "exit"
              /\ exit = 1
              /\ error = [Err("NoSuchRemoteFile") EXCEPT
                             !.hw = srcs[1].hw, !.text = srcs[1].name]
        /\ Cardinality(SrcMatches) > 1 =>
              /\ pc = "exit"
              /\ exit = 1
              /\ error = Err("MultipleSourcesOneDestination")
        /\ Cardinality(SrcMatches) # 1 =>
              /\ \A i \in 1..Len(ioLog) :
                    ioLog[i].op \in {"metadata", "GET submissions", "GET files"}
              /\ fs \in FsStates

\* a pattern that matches three files was refused for an existing file
C18_Witness ==
    /\ ResolvedOne
    /\ mode = "File"
    /\ Cardinality(SrcMatches) = 3
    /\ error.kind = "MultipleSourcesOneDestination"
    /\ fs = FsFile

\* what each pattern of FetchPatterns is to match, written out by hand
ExpectedMatch(p, name) ==
    LET n == Len(name)
        dot_c == n >= 2 /\ name[n - 1] = "." /\ name[n] = "c"
    IN  CASE p = <<>> -> TRUE
          [] p = <<"*">> -> TRUE
          [] p = <<"*", ".", "c">> -> dot_c
          [] p = <<"?", ".", "c">> -> n = 3 /\ dot_c
          [] p = <<"[", "a", "b", "]", ".", "c">> ->
                name \in {<<"a", ".", "c">>, <<"b", ".", "c">>}
          [] p = <<"[", "!", "a", "]", ".", "c">> -> n = 3 /\ dot_c /\ name[1] # "a"
          [] p = <<"a", ".", "c">> -> name = <<"a", ".", "c">>
          [] OTHER -> FALSE

\* the one pattern of FetchPatterns that is not a glob
ExpectedInvalid(p) == p = <<"[", "a">>

\* the listing was received
ListingReceived ==
    error.kind \in {"none", "NoSuchRemoteFile"}

\* C19: the matching list of the empty pattern is the whole listing, that of
\* any other pattern is the listing's files whose names the glob matches, in
\* the listing's order; the non-empty variant fails with NoSuchRemoteFile for
\* the pattern exactly when that list is empty and returns the same list
\* otherwise; a pattern that is not a glob is an error and no request is made.
C19_MatchingLists ==
    pc = "fetched" =>
        LET rpat == srcs[1]
            expected == SelectSeq(remote[1], LAMBDA file : ExpectedMatch(rpat.name, file.name))
        IN  /\ ExpectedInvalid(rpat.name) =>
                  /\ error.kind = "PatternError"
                  /\ ioLog = <<>>
                  /\ src_metas = <<>>
            /\ ~ExpectedInvalid(rpat.name) => error.kind # "PatternError"
            /\ (ListingReceived /\ mode = "matching") =>
                  /\ error.kind = "none"
                  /\ src_metas = expected
                  /\ rpat.name = <<>> => src_metas = remote[1]
            /\ (ListingReceived /\ mode = "nonempty") =>
                  /\ (error.kind = "NoSuchRemoteFile") <=> (expected = <<>>)
                  /\ error.kind = "NoSuchRemoteFile" =>
                        (error.hw = rpat.hw /\ error.text = rpat.name)
                  /\ error.kind = "none" => src_metas = expected
            /\ ListingReceived => Happened("GET files")

\* a negated class picked the second of two files
C19_Witness ==
    /\ pc = "fetched"
    /\ mode = "nonempty"
    /\ srcs[1].name = <<"[", "!", "a", "]", ".", "c">>
    /\ Len(remote[1]) = 2
    /\ remote[1][1].name = t_a_c
    /\ src_metas = <<remote[1][2]>>

\* the token with the colon that a bare hw<N> lacks
WithColon(s) == IF HasChar(s, ":") THEN s ELSE s \o <<":">>

\* the number of the token is written without a leading zero
CanonicalNumber(s) == s[3] # "0" \/ Len(s) = 3 \/ s[4] \notin Digits

\* the token without the zeros that lead its number
RECURSIVE StripZeros(_)
StripZeros(s) ==
    IF CanonicalNumber(s) THEN s
    ELSE StripZeros(<<"h", "w">> \o Tail2(s, 4))

\* a token was accepted by one of the two parsers of remote patterns
Accepted == pc = "parsed" /\ error.kind = "none"

\* C20 as stated: the display of the pattern parsed from an accepted token
\* is the token itself, a colon added to a bare hw<N>.
C20_RoundTrip ==
    Accepted => upname = WithColon(argv.dst)

\* C20 as amended: the display of the pattern parsed from an accepted token
\* is the token with its number in decimal without leading zeros, a colon
\* added to a bare hw<N>; so it is the token itself when the number is
\* written that way, and parsing the display gives the same pattern again.
C20_RoundTripCanonical ==
    Accepted =>
        /\ upname = WithColon(StripZeros(argv.dst))
        /\ CanonicalNumber(argv.dst) => upname = WithColon(argv.dst)
        /\ parse_hw_file(upname).ok
        /\ parse_hw_file(upname).arg = dst
        /\ parse_hw_opt_file(upname).arg = dst

\* hw12 was accepted and is displayed as hw12:, and so is hw12:a:b as itself
C20_Witness ==
    /\ Accepted
    /\ mode = "hw_opt_file"
    /\ argv.dst = <<"h", "w", "1", "2">>
    /\ upname = <<"h", "w", "1", "2", ":">>
    /\ dst = Remote(12, NoText)

\* the token has the form hw<N>:<rest>, N a run of k ASCII digits
HwColonForm(t, k) ==
    /\ Len(t) >= 3 + k
    /\ t[1] = "h" /\ t[2] = "w"
    /\ \A i \in 3..(2 + k) : t[i] \in Digits
    /\ t[3 + k] = ":"

IsSyntaxError(t) == error.kind = "SyntaxError" /\ error.text = t

\* the outcome the classification of cp arguments gives to a token
CpArgOutcome(t) ==
    IF t = <<>> THEN IsSyntaxError(t)
    ELSE IF t[1] = ":" /\ Len(t) >= 2
    THEN error = NoError /\ dst = Local(Tail(t))
    ELSE IF ~HasChar(t, ":")
    THEN error = NoError /\ dst = Local(t)
    ELSE IF \E k \in 1..Len(t) : HwColonForm(t, k)
    THEN LET k == CHOOSE j \in 1..Len(t) : HwColonForm(t, j) IN
         /\ error = NoError
         /\ dst.tag = "Remote"
         /\ dst.name = Tail2(t, 4 + k)
         /\ dst.hw = ParseUsize(SubSeq(t, 3, 2 + k))
    ELSE IsSyntaxError(t)

\* C21: parse_cp_arg gives every token exactly one outcome: ':X' with X not
\* empty is the local file X, a token without a colon is a local file, a
\* token hw<N>:<rest> is the remote pattern with hw = N and name = rest, and
\* the empty token and every other token with a colon are a SyntaxError
C21_Classification ==
    (pc = "classified" /\ mode = "cp_arg") => CpArgOutcome(argv.dst)

\* a parser has returned
ParserReturned == pc \in {"parsed", "classified"}

\* the token starts with hw and a run of ASCII digits that is no machine integer
NumberTooBig(t) ==
    /\ Len(t) >= 3
    /\ t[1] = "h" /\ t[2] = "w"
    /\ \E k \in 1..(Len(t) - 2) :
          /\ \A i \in 3..(2 + k) : t[i] \in Digits
          /\ k = Len(t) - 2 \/ t[3 + k] = ":"
          /\ ~FitsUsize(SubSeq(t, 3, 2 + k))

\* the token is hw<N>: with nothing after the colon
EmptyFileName(t) ==
    /\ Len(t) >= 4
    /\ t[Len(t)] = ":"
    /\ HwColonForm(t, Len(t) - 3)

\* the parser reads the token as a homework token: parse_cp_arg and
\* parse_remote_dest take a token without a colon as a file name
ReadAsHomework == mode \in {"cp_arg", "remote_dest"} => HasChar(argv.dst, ":")

\* C22: every parser either accepts its token or rejects it with a
\* SyntaxError that names the expected class and the token, before any
\* request is sent; no token makes a parser panic; a token whose number does
\* not fit the machine integer is a SyntaxError, and so is hw<N>: with an
\* empty file name given where a file is required (parse_hw_file, the
\* source of mv)
C22_SyntaxErrors ==
    ParserReturned =>
        /\ error.kind \in {"none", "SyntaxError"}
        /\ error.kind = "SyntaxError" => error.text = argv.dst /\ error.class # ""
        /\ ioLog = <<>>
        /\ (NumberTooBig(argv.dst) /\ ReadAsHomework) => error.kind = "SyntaxError"
        /\ (mode = "hw_file" /\ EmptyFileName(argv.dst)) => error.kind = "SyntaxError"

\* the server lists homework n for user U
Listed(U, n) == \E i \in 1..Len(submissions[U]) : submissions[U][i] = n

\* the positions of the log where the server answered the request about U
Answers200(log, U) == {i \in 1..Len(log) : log[i] = Ev("response ok", 0, <<U>>)}

\* one lookup, for the user and number that the next state records
C23_Step ==
    LET U == dst'.user
        n == dst'.number
        fetch == <<Ev("GET submissions", 0, <<U>>)>>
        failed == ioLog' = ioLog \o fetch \o <<Ev("response error", 0, <<U>>)>>
    IN  /\ IF Answers200(ioLog, U) # {}
           THEN ioLog' = ioLog /\ submission_uris' = submission_uris
           ELSE \/ failed
                \/ ioLog' = ioLog \o fetch \o <<Ev("response ok", 0, <<U>>)>>
        /\ failed => submission_uris' = submission_uris /\ error'.kind = "ServerError"
        /\ ~failed =>
              IF Listed(U, n)
              THEN error' = NoError /\ dst'.uri = SomeUri(U, n)
              ELSE /\ error' = [Err("UnknownHomework") EXCEPT !.hw = n]
                   /\ dst'.uri = NoUri
        /\ DOMAIN submission_uris' = {w \in CacheUsers : Answers200(ioLog', w) # {}}
        /\ \A w \in DOMAIN submission_uris : submission_uris'[w] = submission_uris[w]
        /\ \A w \in CacheUsers : Cardinality(Answers200(ioLog', w)) <= 1

\* C23: the cache of submission URIs is keyed by the user: a lookup for U is
\* answered from the list fetched for U and from no other entry, the list of
\* U is requested only while no request for it has succeeded, a failed
\* request inserts no entry, and a number that U's list lacks gives
\* UnknownHomework
C23_CacheKeyedByUser == [][C23_Step]_vars

\* a failed and then a successful request for u, a request for v, and a
\* lookup for u answered from the cache
C23_Witness ==
    /\ pc = "cache"
    /\ ioLog = <<Ev("GET submissions", 0, <<"u">>), Ev("response error", 0, <<"u">>),
                 Ev("GET submissions", 0, <<"u">>), Ev("response ok", 0, <<"u">>),
                 Ev("GET submissions", 0, <<"v">>), Ev("response ok", 0, <<"v">>)>>
    /\ si = 4
    /\ dst = [user |-> "u", number |-> 1, uri |-> SomeUri("u", 1)]

\* every source is a remote pattern
AllRemote == \A i \in 1..Len(command.srcs) : command.srcs[i].tag = "Remote"

\* the destination names nothing that exists
DstIsAbsent ==
    /\ command.dst.tag = "Local"
    /\ ~FsHas(fs, Components(command.dst.path))

\* C24: when the Local destination is an existing plain file or does not
\* exist, cp with Remote sources that are not exactly one fails with
\* MultipleSourcesOneDestination; only the destination was probed before, no
\* listing was requested, nobody was prompted and nothing was written; this
\* holds also when a source is a whole homework and the destination a file
C24_OneSourceOnly ==
    (/\ CpCalled
     /\ AllRemote
     /\ Len(command.srcs) # 1
     /\ DstIsPlainFile \/ DstIsAbsent) =>
        /\ pc = "exit"
        /\ exit = 1
        /\ error = Err("MultipleSourcesOneDestination")
        /\ ioLog = <<Ev("metadata", 0, command.dst.path)>>
        /\ fs \in FsStates

\* two sources, the first a whole homework, were refused for a plain file
C24_Witness ==
    /\ pc = "exit"
    /\ error.kind = "MultipleSourcesOneDestination"
    /\ DstIsPlainFile
    /\ Len(command.srcs) = 2
    /\ AllRemote
    /\ RpatIsWholeHw(command.srcs[1])

\* mv has resolved its source and completed its destination
MvResolved == pc \in {"mv_prompt", "mv_patch"} \/ (pc = "exit" /\ src_metas # <<>>)

\* the number of events of this kind
RECURSIVE CountOp(_, _)
CountOp(log, op) ==
    IF log = <<>> THEN 0
    ELSE (IF Head(log).op = op THEN 1 ELSE 0) + CountOp(Tail(log), op)

\* the files of the homework that the pattern of the source matches; mv has not
\* changed the server while it is about to send
MatchesOfSource ==
    SelectSeq(remote[command.srcs[1].hw],
              LAMBDA file : GlobIsMatch(command.srcs[1].name, file.name))

\* the server holds a file of the destination's homework and exact name
DstOnServer ==
    /\ dst.hw \in DOMAIN remote
    /\ \E i \in 1..Len(remote[dst.hw]) : remote[dst.hw][i].name = dst.name

\* the destination as the claim completes it
ExpectedDst ==
    Remote(IF command.dst.hw = NoHw THEN src_metas[1].hw ELSE command.dst.hw,
           IF command.dst.name = <<>> THEN src_metas[1].name ELSE command.dst.name)

\* the PATCH that carries the fields of the destination that differ
ExpectedPatch ==
    Ev("PATCH", IF dst.hw # src_metas[1].hw THEN dst.hw ELSE NoHw,
                IF dst.name # src_metas[1].name THEN dst.name ELSE NoText)

SameAsSource == dst.hw = src_metas[1].hw /\ dst.name = src_metas[1].name

\* mv is about to send its PATCH
AboutToPatch == pc = "mv_patch"

\* C25: mv resolves its source to exactly one remote file and completes the
\* destination from it, homework and name being inherited when left out; a
\* destination equal to the source sends nothing more; otherwise at most one
\* PATCH is sent, it carries exactly the fields that differ, and when the
\* server holds a file of the destination's exact name it is sent only
\* after the overwrite policy has approved
C25_Move ==
    MvResolved =>
        /\ Len(src_metas) = 1
        /\ dst = ExpectedDst
        /\ SameAsSource =>
              /\ pc = "exit" /\ exit = 0
              /\ CountOp(ioLog, "PATCH") = 0
              /\ CountOp(ioLog, "GET files") = 1
        /\ CountOp(ioLog, "PATCH") <= 1
        /\ \A i \in 1..Len(ioLog) : ioLog[i].op = "PATCH" => ioLog[i] = ExpectedPatch
        /\ AboutToPatch =>
              /\ MatchesOfSource = src_metas
              /\ ~SameAsSource
              /\ DstOnServer => Happened("approve")

\* mv was called, and the run did not end inside a prompt
MvReturned == pc = "exit" /\ command.srcs # <<>> /\ ~ExitedFromPrompt

\* a request of mv has failed
RequestFailed == Happened("response error")

\* the source pattern was looked up and matched no file or several
SourceNotOne ==
    /\ Happened("GET files")
    /\ src_metas = <<>>
    /\ ~RequestFailed
    /\ Len(MatchesOfSource) # 1

\* the policy Never met a file of the destination's name
RefusedByNever ==
    /\ src_metas # <<>>
    /\ ~SameAsSource
    /\ overwrite = "Never"
    /\ CountOp(ioLog, "PATCH") = 0
    /\ DstOnServer

\* C26: mv never returns an error: when the source pattern matches no file or
\* several, when the destination exists under the policy Never, or when the
\* server refuses a request, mv prints a warning and returns, the process
\* ends with status 2 and not with 1, and no PATCH follows the failure
C26_FailuresAreWarnings ==
    /\ (pc = "exit" /\ command.srcs # <<>>) => error = NoError
    /\ (MvReturned /\ (SourceNotOne \/ RefusedByNever \/ RequestFailed)) =>
          /\ exit = 2
          /\ had_warning
          /\ warnings # <<>>
    /\ \A i \in 1..Len(ioLog) :
          ioLog[i].op = "response error" =>
              \A j \in (i + 1)..Len(ioLog) : ioLog[j].op # "PATCH"

\* the token names a whole homework as the command reads its sources: hw<N>:
\* for all three, and a bare hw<N> for cat and rm
WholeHwToken(t, sub) ==
    \/ sub # "cp" /\ LooksLikeBareHw(t)
    \/ /\ Len(t) >= 4
       /\ t[Len(t)] = ":"
       /\ LooksLikeBareHw(SubSeq(t, 1, Len(t) - 1))

\* the token is none that cat and rm can read
MalformedSpec(t, sub) ==
    /\ sub # "cp"
    /\ ~LooksLikeBareHw(t)
    /\ ~\E k \in 1..Len(t) : HwColonForm(t, k)

\* the first source that names a whole homework
FirstWholeHw ==
    CHOOSE i \in 1..Len(argv.srcs) :
        /\ WholeHwToken(argv.srcs[i], argv.sub)
        /\ \A j \in 1..(i - 1) : ~WholeHwToken(argv.srcs[j], argv.sub)

NameOf(sub) == CASE sub = "cat" -> n_cat [] sub = "rm" -> n_rm [] OTHER -> <<"c", "p">>

\* cat, cp or rm was given a whole homework as a source and no -a
UnflaggedWholeHw ==
    /\ argv.sub \in {"cat", "cp", "rm"}
    /\ ~argv.all
    /\ \E i \in 1..Len(argv.srcs) : WholeHwToken(argv.srcs[i], argv.sub)

\* C27: cat, cp and rm refuse a whole-homework source without the -a flag:
\* argument processing fails with CommandRequiresFlag naming the command
\* (with the SyntaxError of an earlier argument when there is one) before
\* any request, upload, download or deletion; a whole-homework destination
\* of cp needs no flag
C27_WholeHwNeedsFlag ==
    pc # "args" =>
        /\ UnflaggedWholeHw =>
              /\ pc = "exit"
              /\ exit = 1
              /\ ioLog = <<>>
              /\ remote = (1 :> <<f_a, f_l, f_b>>)
              /\ fs = FsAbsent
              /\ IF \A j \in 1..(FirstWholeHw - 1) : ~MalformedSpec(argv.srcs[j], argv.sub)
                 THEN error = ErrText("CommandRequiresFlag", NameOf(argv.sub))
                 ELSE error.kind = "SyntaxError"
        /\ (argv.sub = "cp" /\ ~UnflaggedWholeHw) =>
              /\ pc = "cmd"
              /\ command.dst = Remote(1, NoText)

\* rm was refused for its second argument, a whole homework
C27_Witness ==
    /\ pc = "exit"
    /\ argv.sub = "rm"
    /\ argv.srcs = <<t_hw1_a, t_hw1>>
    /\ error = ErrText("CommandRequiresFlag", n_rm)

\* json_ls is running: ls was called with the JSON output on
InJsonLs == pc = "ls" /\ mode = "json"

\* C29: the assertion of json_ls holds whenever it is reached: with the JSON
\* output on, every pattern that ls was given has an empty name, and the
\* process never ends in the panic of the assertion
C29_AssertionHolds ==
    /\ InJsonLs => \A i \in 1..Len(command.srcs) : command.srcs[i].name = <<>>
    /\ pc = "exit" => error.kind # "Panic"

\* the step is a download whose GET request failed
FailedDownload ==
    /\ pc = "download"
    /\ ioLog' # ioLog
    /\ ioLog'[Len(ioLog')].op = "GET file"
    /\ \/ error'.kind = "ServerError"
       \/ Len(warnings') > Len(warnings) /\ warnings'[Len(warnings')].kind = "ServerError"

\* C28: download_file creates or truncates the destination before it sends
\* the GET: when the request fails the destination exists and is empty,
\* whatever it held before and whether it existed or not, the open comes
\* before the GET, and nothing else in the file system changes
C28_TruncatedBeforeGet ==
    [][FailedDownload =>
          /\ fs'[Components(file_dst)] = FileEntry(NoData)
          /\ \A cs \in DOMAIN fs : cs # Components(file_dst) => fs'[cs] = fs[cs]
          /\ DOMAIN fs' = DOMAIN fs \cup {Components(file_dst)}
          /\ ioLog' = ioLog \o <<Ev("open", 0, file_dst),
                                 Ev("GET file", Head(src_metas).hw, Head(src_metas).name)>>
      ]_vars

\* the download onto an existing file, approved at the prompt, failed and
\* left the file empty
C28_Witness ==
    /\ pc = "exit"
    /\ mode = "File"
    /\ error.kind = "ServerError"
    /\ Happened("approve")
    /\ ioLog[Len(ioLog)].op = "GET file"
    /\ fs[Components(command.dst.path)] = FileEntry(NoData)

\* ---- C30 ----
\* the entered text without the ASCII whitespace around it
KeyCore(entered) ==
    LET at == {i \in 1..Len(entered) : entered[i] \notin AsciiWhitespace} IN
    IF at = {} THEN NoText
    ELSE SubSeq(entered, CHOOSE i \in at : \A j \in 1..(i - 1) : j \notin at,
                CHOOSE i \in at : \A j \in (i + 1)..Len(entered) : j \notin at)

\* the local format check takes the entry: forty hexadecimal digits
WellFormedKey(entered) ==
    LET core == KeyCore(entered) IN
    /\ Len(core) = 40
    /\ \A i \in 1..40 : core[i] \in HexDigits

\* the events that the step of auth now taken has added to the log
AuthEvents == SubSeq(ioLog', Len(ioLog) + 1, Len(ioLog'))

AuthEntered == AuthEvents[2].text

AuthRequested == Len(AuthEvents) >= 3 /\ AuthEvents[3].op = "GET user"

AuthAnswered(http) ==
    /\ Len(AuthEvents) = 4
    /\ AuthEvents[4].op = "response"
    /\ AuthEvents[4].hw = http

\* the request of the step carries the entered key, for the user in lower case
CarriesEnteredKey ==
    LET core == KeyCore(AuthEntered)
        sent == AuthEvents[3].text
    IN  /\ AuthRequested
        /\ WellFormedKey(AuthEntered)
        /\ Len(sent) = 41
        /\ sent[1] = to_lowercase(command.user)
        /\ \A i \in 1..40 :
              /\ to_ascii_lowercase(sent[i + 1]) = sent[i + 1]
              /\ sent[i + 1] = to_ascii_lowercase(core[i])

SavedFromRequest ==
    /\ credentials'.some
    /\ <<credentials'.username>> \o credentials'.key = AuthEvents[3].text

AuthEndsWithError ==
    pc' = "exit" /\ exit' = 1 /\ error'.kind # "none" /\ credentials' = credentials

====
